---------------------------- MODULE Spec2Model ----------------------------
(***************************************************************************)
(* A model of the BabyBear field, its septic extension and the global      *)
(* interaction encoder (populate_memory / populate_syscall) of             *)
(* crates/core/machine.                                                    *)
(*                                                                         *)
(* A base-field element is its stored word `val` (the Montgomery form).    *)
(* 64-bit intermediate values of the code are kept as 16-bit limbs, because *)
(* the integers of the model checker are 32 bits wide; a uint32_t of the   *)
(* interface (a record field, the argument of from_canonical_u32) is a pair *)
(* <<high half, low half>> of 16-bit halves.                                *)
(***************************************************************************)
EXTENDS Integers, Sequences, FiniteSets, TLC

(***************************************************************************)
(* bb31_t (host build): constants.                                         *)
(***************************************************************************)
MOD == 2013265921

MONTY_BITS == 32

ONE == 268435454

\* A uint32_t is kept as two 16-bit halves, W the base.
W == 65536

\* MOD = 0x78000001 and MONTY_MU = 0x88000001 in halves.
MOD32 == <<30720, 1>>

MONTY_MU == <<34816, 1>>

(***************************************************************************)
(* uint32_t values as pairs <<hi, lo>>.                                    *)
(***************************************************************************)
u32_of(n) == <<n \div W, n % W>>

u32_lt(a, b) == a[1] < b[1] \/ (a[1] = b[1] /\ a[2] < b[2])

\* a + b on uint32_t: the sum wraps modulo 2^32.
u32_add(a, b) ==
  LET lo == a[2] + b[2]
  IN <<(a[1] + b[1] + (lo \div W)) % W, lo % W>>

\* a - b on uint32_t: the difference wraps modulo 2^32.
u32_sub(a, b) ==
  LET lo == a[2] - b[2]
      br == IF lo < 0 THEN 1 ELSE 0
  IN <<(a[1] - b[1] - br + W) % W, (lo + W) % W>>

(***************************************************************************)
(* bb31_t: Montgomery arithmetic.                                          *)
(***************************************************************************)
\* x % MOD for a uint32_t x (x < 2^32 < 3 * MOD).
u32_mod(x) ==
  IF ~u32_lt(x, <<2 * MOD32[1], 2 * MOD32[2]>>)
    THEN (x[1] - 2 * MOD32[1]) * W + (x[2] - 2 * MOD32[2])
    ELSE IF ~u32_lt(x, MOD32)
           THEN (x[1] - MOD32[1]) * W + (x[2] - MOD32[2])
           ELSE x[1] * W + x[2]

\* (r << k) % MOD for r < MOD: the remainder of the 64-bit shift, one bit
\* of the quotient at a time.
RECURSIVE shl_mod(_, _)
shl_mod(r, k) ==
  IF k = 0 THEN r
  ELSE shl_mod(IF r >= MOD - r THEN r - (MOD - r) ELSE r + r, k - 1)

\* to_monty(x) = ((uint64_t)x << MONTY_BITS) % MOD
to_monty(x) == shl_mod(u32_mod(x), MONTY_BITS)

\* bb31_t(int a) for a >= 0: val = ((uint64_t)a << 32) % MOD
bb31_t(a) == shl_mod(a % MOD, MONTY_BITS)

\* Arguments are passed by value and statements run in order: r, with v
\* evaluated first.
after(v, r) == IF v = v THEN r ELSE r

\* low 16 bits of a * b, for 16-bit a and b
MulLo16(a, b) == ((a % 256) * b + (((a \div 256) * b) % 256) * 256) % W

\* long_prod = (uint64_t)val * (uint64_t)b.val, as <<bits 0..15, bits 16..31,
\* bits 32..63>>, for val, b.val < 2^31.
long_prod(a, b) ==
  LET al == a % W
      ah == a \div W
      bl == b % W
      bh == b \div W
      T == (al % 256) * bl
      S == (al \div 256) * bl
      P == ah * bl
      Q == al * bh
      c0 == T + (S % 256) * 256
      c1 == (S \div 256) + (P % W) + (Q % W) + (c0 \div W)
  IN <<c0 % W, c1 % W, ah * bh + (P \div W) + (Q \div W) + (c1 \div W)>>

\* monty_reduce(x): t = (x * MONTY_MU) & MONTY_MASK; u = t * MOD;
\* x_sub_u = x - u; over = x < u; return (x_sub_u >> 32) + (over ? MOD : 0).
\* u and x agree on their low 32 bits or differ there by a borrow into the
\* high word; x < u exactly when the high-word difference is negative.
monty_reduce(xx) ==
  LET x0 == xx[1]
      x1 == xx[2]
      xh == xx[3]
      t0 == MulLo16(x0, MONTY_MU[2])
      t1 == (MulLo16(x1, MONTY_MU[2]) + MulLo16(x0, MONTY_MU[1])
             + ((x0 * MONTY_MU[2]) \div W)) % W
      A == t0 * MOD32[2]
      B == t0 * MOD32[1]
      C == t1 * MOD32[2]
      u0 == A % W
      c1 == (A \div W) + (B % W) + (C % W)
      u1 == c1 % W
      uh == t1 * MOD32[1] + (B \div W) + (C \div W) + (c1 \div W)
      borrow == IF x1 < u1 \/ (x1 = u1 /\ x0 < u0) THEN 1 ELSE 0
      d == xh - uh - borrow
  IN IF d < 0 THEN d + MOD ELSE d

\* the stored val taken for the canonical value
from_monty_raw(x) == x

\* from_monty(x) = monty_reduce((uint64_t)x)
from_monty(x) == monty_reduce(<<x % W, x \div W, 0>>)

\* BabyBear() {} assigns nothing to val: the element it builds holds an
\* indeterminate val.  indeterminate stands for every uint32_t at once, the
\* val being any of them; it is no uint32_t itself.  An operation that reads
\* an indeterminate val gives an indeterminate val, the product with a zero
\* val excepted: monty_reduce(0) is 0.
indeterminate == -1

\* as_canonical_u32() = from_monty(val)
as_canonical_u32(a) == IF a = indeterminate THEN indeterminate ELSE from_monty(a)

\* operator+=: val += b.val; if (val >= MOD) val -= MOD
Add(a, b) ==
  IF a = indeterminate \/ b = indeterminate THEN indeterminate
  ELSE IF a >= MOD - b THEN a - (MOD - b) ELSE a + b

\* operator-= with no val += MOD
Sub_no_wrap(a, b) == a - b

\* operator-=: if (val < b.val) val += MOD; val -= b.val
Sub(a, b) ==
  IF a = indeterminate \/ b = indeterminate THEN indeterminate
  ELSE IF a < b THEN (a - b) + MOD ELSE a - b

\* operator*=: val = monty_reduce((uint64_t)val * (uint64_t)b.val)
Mul(a, b) ==
  IF a = indeterminate \/ b = indeterminate
    THEN (IF a = 0 \/ b = 0 THEN 0 ELSE indeterminate)
    ELSE monty_reduce(long_prod(a, b))

\* operator==(rhs): val == rhs.val, the answers it can give; either one
\* when a val is indeterminate
equal_outcomes(a, b) ==
  IF a = indeterminate \/ b = indeterminate THEN BOOLEAN ELSE {a = b}

\* from_bool(x): bb31_t(x * one().val), the stored val given as it is
from_bool(x) == IF x THEN ONE ELSE 0

\* operator<<=(l): while (l--) { val <<= 1; if (val >= MOD) val -= MOD; },
\* for val < MOD, where val <<= 1 does not leave 32 bits
RECURSIVE operator_shl(_, _)
operator_shl(a, l) ==
  IF l = 0 THEN a
  ELSE operator_shl(IF a >= MOD - a THEN a - (MOD - a) ELSE a + a, l - 1)

square(a) == Mul(a, a)

RECURSIVE exp_power_of_2(_, _)
exp_power_of_2(a, power_log) ==
  after(a, IF power_log = 0 THEN a ELSE exp_power_of_2(square(a), power_log - 1))

\* operator^=(int b): sqr = *this; if ((b & 1) == 0) *this = one();
\* while (b >>= 1) { sqr = sqr.square(); if (b & 1) *this *= sqr; }
RECURSIVE pow_loop(_, _, _)
pow_round(acc, sqr, b) == pow_loop(IF b % 2 = 1 THEN Mul(acc, sqr) ELSE acc, sqr, b)

pow_loop(acc, sqr, b) ==
  after(acc, after(sqr,
    IF b \div 2 = 0 THEN acc ELSE pow_round(acc, square(sqr), b \div 2)))

Pow(a, b) == pow_loop(IF b % 2 = 0 THEN ONE ELSE a, a, b)

\* The product chain of reciprocal(), after its assertion; each definition
\* ends with the statements up to the value named in its comment.
\* p1110111111111111111111111111111
reciprocal_9_short(p111000011110000111100001111) ==
  after(p111000011110000111100001111,
    Mul(exp_power_of_2(p111000011110000111100001111, 3),
        p111000011110000111100001111))

reciprocal_9(p111000011110000111100001111) ==
  after(p111000011110000111100001111,
    Mul(exp_power_of_2(p111000011110000111100001111, 4),
        p111000011110000111100001111))

\* p111000011110000111100001111
reciprocal_8(p11000010110000101100001011, p100000001000000010000000100) ==
  after(p11000010110000101100001011, after(p100000001000000010000000100,
    reciprocal_9(Mul(p100000001000000010000000100, p11000010110000101100001011))))

\* p11000010110000101100001011 and p100000001000000010000000100
reciprocal_7(p1000010010000100100001001, p10000000100000001000000010) ==
  after(p1000010010000100100001001, after(p10000000100000001000000010,
    reciprocal_8(Mul(p10000000100000001000000010, p1000010010000100100001001),
                 square(p10000000100000001000000010))))

\* p1000010010000100100001001 and p10000000100000001000000010
reciprocal_6(p10000000100000001000, p1000000010000000100000001) ==
  after(p1000000010000000100000001,
    reciprocal_7(Mul(p1000000010000000100000001, p10000000100000001000),
                 square(p1000000010000000100000001)))

\* p1000000010000000100000000 and p1000000010000000100000001
reciprocal_5(p1, p10000000100000001000) ==
  after(p10000000100000001000,
    reciprocal_6(p10000000100000001000,
                 Mul(exp_power_of_2(p10000000100000001000, 5), p1)))

\* p10000000100000001000
reciprocal_4(p1, p10000000100000001) ==
  after(p10000000100000001,
    reciprocal_5(p1, exp_power_of_2(p10000000100000001, 3)))

\* p10000000000000000 and p10000000100000001
reciprocal_3(p1, p100000000, p100000001) ==
  after(p100000001,
    reciprocal_4(p1, Mul(exp_power_of_2(p100000000, 8), p100000001)))

\* p100000001
reciprocal_2(p1, p100000000) ==
  after(p100000000, reciprocal_3(p1, p100000000, Mul(p100000000, p1)))

\* p1 and p100000000
reciprocal_chain(a) == after(a, reciprocal_2(a, exp_power_of_2(a, 8)))

(***************************************************************************)
(* bb31_septic_extension_t: an element is the tuple of its seven           *)
(* coefficients value[0..6]; at(v, i) is value[i].                         *)
(***************************************************************************)
frobenius_const ==
  <<bb31_t(1), bb31_t(0), bb31_t(0), bb31_t(0), bb31_t(0), bb31_t(0), bb31_t(0),
     bb31_t(954599710), bb31_t(1359279693), bb31_t(566669999), bb31_t(1982781815), bb31_t(1735718361), bb31_t(1174868538), bb31_t(1120871770),
     bb31_t(862825265), bb31_t(597046311), bb31_t(978840770), bb31_t(1790138282), bb31_t(1044777201), bb31_t(835869808), bb31_t(1342179023),
     bb31_t(596273169), bb31_t(658837454), bb31_t(1515468261), bb31_t(367059247), bb31_t(781278880), bb31_t(1544222616), bb31_t(155490465),
     bb31_t(557608863), bb31_t(1173670028), bb31_t(1749546888), bb31_t(1086464137), bb31_t(803900099), bb31_t(1288818584), bb31_t(1184677604),
     bb31_t(763416381), bb31_t(1252567168), bb31_t(628856225), bb31_t(1771903394), bb31_t(650712211), bb31_t(19417363), bb31_t(57990258),
     bb31_t(1734711039), bb31_t(1749813853), bb31_t(1227235221), bb31_t(1707730636), bb31_t(424560395), bb31_t(1007029514), bb31_t(498034669)>>

double_frobenius_const ==
  <<bb31_t(1), bb31_t(0), bb31_t(0), bb31_t(0), bb31_t(0), bb31_t(0), bb31_t(0),
     bb31_t(1013489358), bb31_t(1619071628), bb31_t(304593143), bb31_t(1949397349), bb31_t(1564307636), bb31_t(327761151), bb31_t(415430835),
     bb31_t(209824426), bb31_t(1313900768), bb31_t(38410482), bb31_t(256593180), bb31_t(1708830551), bb31_t(1244995038), bb31_t(1555324019),
     bb31_t(1475628651), bb31_t(777565847), bb31_t(704492386), bb31_t(1218528120), bb31_t(1245363405), bb31_t(475884575), bb31_t(649166061),
     bb31_t(550038364), bb31_t(948935655), bb31_t(68722023), bb31_t(1251345762), bb31_t(1692456177), bb31_t(1177958698), bb31_t(350232928),
     bb31_t(882720258), bb31_t(821925756), bb31_t(199955840), bb31_t(812002876), bb31_t(1484951277), bb31_t(1063138035), bb31_t(491712810),
     bb31_t(738287111), bb31_t(1955364991), bb31_t(552724293), bb31_t(1175775744), bb31_t(341623997), bb31_t(1454022463), bb31_t(408193320)>>

A_EC_LOGUP ==
  <<bb31_t(826366246), bb31_t(1398314899), bb31_t(595878500), bb31_t(864233365), bb31_t(42484119), bb31_t(378771767), bb31_t(1359315465)>>

B_EC_LOGUP ==
  <<bb31_t(1955874194), bb31_t(813176384), bb31_t(1652957321), bb31_t(159787011), bb31_t(1210397729), bb31_t(386300290), bb31_t(343967313)>>

at(v, i) == v[i + 1]

zero == 0

two == to_monty(u32_of(2))

ext_zero == <<0, 0, 0, 0, 0, 0, 0>>

ext_one == <<ONE, 0, 0, 0, 0, 0, 0>>

\* bb31_septic_extension_t(bb31_t value): value[0] = value, the rest zero
ext_from_base(b) == <<b, 0, 0, 0, 0, 0, 0>>

\* operator+=(bb31_t b): value[0] += b
ext_add_base(a, b) == <<Add(a[1], b), a[2], a[3], a[4], a[5], a[6], a[7]>>

ext_add(a, b) ==
  <<Add(a[1], b[1]), Add(a[2], b[2]), Add(a[3], b[3]), Add(a[4], b[4]),
    Add(a[5], b[5]), Add(a[6], b[6]), Add(a[7], b[7])>>

ext_sub(a, b) ==
  <<Sub(a[1], b[1]), Sub(a[2], b[2]), Sub(a[3], b[3]), Sub(a[4], b[4]),
    Sub(a[5], b[5]), Sub(a[6], b[6]), Sub(a[7], b[7])>>

\* operator*=(bb31_t b)
ext_mul_base(a, b) ==
  <<Mul(a[1], b), Mul(a[2], b), Mul(a[3], b), Mul(a[4], b),
    Mul(a[5], b), Mul(a[6], b), Mul(a[7], b)>>

\* The factors 5 and 2 of the reduction x^7 = 2x + 5.
reduce_five == to_monty(u32_of(5))

reduce_two == to_monty(u32_of(2))

\* operator*=(bb31_septic_extension_t b), the second loop:
\* for i = 7..12: res[i - 7] += res[i] * 5; res[i - 6] += res[i] * 2.
ext_mul_reduce(res) ==
  <<Add(at(res, 0), Mul(at(res, 7), reduce_five)),
    Add(Add(at(res, 1), Mul(at(res, 7), reduce_two)), Mul(at(res, 8), reduce_five)),
    Add(Add(at(res, 2), Mul(at(res, 8), reduce_two)), Mul(at(res, 9), reduce_five)),
    Add(Add(at(res, 3), Mul(at(res, 9), reduce_two)), Mul(at(res, 10), reduce_five)),
    Add(Add(at(res, 4), Mul(at(res, 10), reduce_two)), Mul(at(res, 11), reduce_five)),
    Add(Add(at(res, 5), Mul(at(res, 11), reduce_two)), Mul(at(res, 12), reduce_five)),
    Add(at(res, 6), Mul(at(res, 12), reduce_two))>>

(***************************************************************************)
(* The two extension classes run the same loops over accumulators res[].   *)
(* bb31_septic_extension_t assigns zero() to each of them first.           *)
(* BabyBearSeptic declares them as BabyBear res[n] = {}: each element is   *)
(* built by BabyBear() {}, which assigns nothing to val, so res[k] += ...  *)
(* reads whatever val the memory held: the leftovers of earlier calls,     *)
(* different from element to element, from call to call and from build to  *)
(* build.  found is the val an accumulator starts from: zero in            *)
(* bb31_septic_extension_t, indeterminate in BabyBearSeptic.               *)
(***************************************************************************)

\* res[k] of BabyBearSeptic::operator*= after rows 0..i of the double loop:
\* res[i + j] += value[i] * b.value[j], from the val found in res[k].
RECURSIVE septic_mul_res(_, _, _, _, _)
septic_mul_res(found, a, b, k, i) ==
  IF i < 0 THEN found
  ELSE IF k - i >= 0 /\ k - i <= 6
         THEN Add(septic_mul_res(found, a, b, k, i - 1), Mul(at(a, i), at(b, k - i)))
         ELSE septic_mul_res(found, a, b, k, i - 1)

\* BabyBearSeptic::operator*=(BabyBearSeptic b): the 13 accumulators, then
\* for i = 7..12: res[i - 7] += res[i] * 5; res[i - 6] += res[i] * 2.
septic_mul(found, a, b) ==
  after(a, after(b,
    ext_mul_reduce(
      <<septic_mul_res(found, a, b, 0, 6), septic_mul_res(found, a, b, 1, 6),
        septic_mul_res(found, a, b, 2, 6), septic_mul_res(found, a, b, 3, 6),
        septic_mul_res(found, a, b, 4, 6), septic_mul_res(found, a, b, 5, 6),
        septic_mul_res(found, a, b, 6, 6), septic_mul_res(found, a, b, 7, 6),
        septic_mul_res(found, a, b, 8, 6), septic_mul_res(found, a, b, 9, 6),
        septic_mul_res(found, a, b, 10, 6), septic_mul_res(found, a, b, 11, 6),
        septic_mul_res(found, a, b, 12, 6)>>)))

\* operator*=(bb31_septic_extension_t b): for i = 0..12: res[i] = zero(),
\* then the same two loops
ext_mul(a, b) == septic_mul(zero, a, b)

\* res[j] of BabyBearSeptic::frobenius() / double_frobenius() after rows
\* 1..i of the loop res[j] += value[i] * table[i][j]: res[0] = value[0] is
\* assigned, res[1..6] are as found.
RECURSIVE septic_frobenius_res(_, _, _, _, _)
septic_frobenius_res(found, a, table, j, i) ==
  IF i = 0 THEN (IF j = 0 THEN at(a, 0) ELSE found)
  ELSE Add(septic_frobenius_res(found, a, table, j, i - 1),
           Mul(at(a, i), at(table, 7 * i + j)))

\* BabyBearSeptic::frobenius() over frobenius_const, double_frobenius() over
\* double_frobenius_const
septic_frobenius_with(found, a, table) ==
  after(a,
    <<septic_frobenius_res(found, a, table, 0, 6),
      septic_frobenius_res(found, a, table, 1, 6),
      septic_frobenius_res(found, a, table, 2, 6),
      septic_frobenius_res(found, a, table, 3, 6),
      septic_frobenius_res(found, a, table, 4, 6),
      septic_frobenius_res(found, a, table, 5, 6),
      septic_frobenius_res(found, a, table, 6, 6)>>)

\* frobenius() / double_frobenius() of bb31_septic_extension_t:
\* res[0] = value[0], res[i] = zero() for i = 1..6, then the same loop
frobenius_with(a, table) == septic_frobenius_with(zero, a, table)

frobenius(a) == frobenius_with(a, frobenius_const)

double_frobenius(a) == frobenius_with(a, double_frobenius_const)

\* pow_r_1(): base = frobenius(); base *= double_frobenius();
\* base_p2 = base.double_frobenius(); base_p4 = base_p2.double_frobenius();
\* return base * base_p2 * base_p4
septic_pow_r_1_p4(found, base, base_p2) ==
  after(base_p2,
    septic_mul(found, septic_mul(found, base, base_p2),
               septic_frobenius_with(found, base_p2, double_frobenius_const)))

septic_pow_r_1_p2(found, base) ==
  after(base,
    septic_pow_r_1_p4(found, base,
                      septic_frobenius_with(found, base, double_frobenius_const)))

septic_pow_r_1(found, a) ==
  after(a,
    septic_pow_r_1_p2(found,
      septic_mul(found, septic_frobenius_with(found, a, frobenius_const),
                 septic_frobenius_with(found, a, double_frobenius_const))))

\* pow_r_1() of bb31_septic_extension_t
pow_r_1(a) == septic_pow_r_1(zero, a)

\* coefficient 0 of the element taken for its norm
pow_r_first(a) == at(a, 0)

\* pow_r(): (pow_r_1() * *this).value[0]
pow_r(a) == after(a, at(ext_mul(pow_r_1(a), a), 0))

\* universal_hash(): *this * A_EC_LOGUP + B_EC_LOGUP
universal_hash(a) == ext_add(ext_mul(a, A_EC_LOGUP), B_EC_LOGUP)

curve_b == to_monty(u32_of(26))

\* curve_formula(): result = x * x * x; result += x; result += x;
\* result.value[5] += 26
curve_formula_b(r) ==
  after(r, <<r[1], r[2], r[3], r[4], r[5], Add(r[6], curve_b), r[7]>>)

curve_formula(a) ==
  after(a, curve_formula_b(ext_add(ext_add(ext_mul(ext_mul(a, a), a), a), a)))

\* is_receive() with the lower end 0 <= limb
is_receive_from_zero(a) ==
  LET limb == as_canonical_u32(at(a, 6))
  IN 0 <= limb /\ limb <= (MOD - 1) \div 2

\* is_receive(): 1 <= limb && limb <= (MOD - 1) / 2, limb = value[6] canonical
is_receive(a) ==
  LET limb == as_canonical_u32(at(a, 6))
  IN 1 <= limb /\ limb <= (MOD - 1) \div 2

\* is_send(): (MOD + 1) / 2 <= limb && limb <= MOD - 1
is_send(a) ==
  LET limb == as_canonical_u32(at(a, 6))
  IN (MOD + 1) \div 2 <= limb /\ limb <= MOD - 1

\* is_exception(): value[6] == zero()
is_exception(a) == at(a, 6) = zero

(***************************************************************************)
(* bb31_cipolla_t and bb31_septic_extension_t::sqrt.                       *)
(***************************************************************************)
\* mul_ext with the nonresidue left out of new_real
mul_ext_no_nonresidue(x, other, nonresidue) ==
  <<Add(Mul(x[1], other[1]), Mul(x[2], other[2])),
    Add(Mul(x[1], other[2]), Mul(x[2], other[1]))>>

\* mul_ext: <<real, imag>> pairs
mul_ext(x, other, nonresidue) ==
  <<Add(Mul(x[1], other[1]), Mul(Mul(nonresidue, x[2]), other[2])),
    Add(Mul(x[1], other[2]), Mul(x[2], other[1]))>>

\* sqrt, the denominator: n_frobenius = n_power.frobenius(); denominator =
\* n_frobenius; twice { n_frobenius = n_frobenius.double_frobenius();
\* denominator *= n_frobenius; } denominator *= *this
septic_sqrt_denominator_3(found, denominator, n_frobenius, x) ==
  after(n_frobenius,
    septic_mul(found, septic_mul(found, denominator, n_frobenius), x))

septic_sqrt_denominator_2(found, denominator, n_frobenius, x) ==
  after(n_frobenius,
    septic_sqrt_denominator_3(found, septic_mul(found, denominator, n_frobenius),
      septic_frobenius_with(found, n_frobenius, double_frobenius_const), x))

septic_sqrt_denominator_1(found, n_frobenius, x) ==
  after(n_frobenius,
    septic_sqrt_denominator_2(found, n_frobenius,
      septic_frobenius_with(found, n_frobenius, double_frobenius_const), x))

septic_sqrt_denominator(found, n_power, x) ==
  septic_sqrt_denominator_1(found,
    septic_frobenius_with(found, n_power, frobenius_const), x)

\* g = from_canonical_u32(31)
sqrt_g == to_monty(u32_of(31))

\* The exponent (p - 1) / 2 of the residuosity test and the exponent
\* (p + 1) / 2 of the Cipolla power.
HALF_ORDER == 1006632960

CIPOLLA_EXP == 1006632961

(***************************************************************************)
(* from_canonical_u32 and reciprocal with their assertions: the guard is   *)
(* the asserted condition, the value is what the call returns when the     *)
(* assertion holds.                                                        *)
(***************************************************************************)
\* assert(x < MOD)
from_canonical_u32_ok(n) == u32_lt(n, MOD32)

\* return bb31_t(to_monty(x))
from_canonical_u32(n) == to_monty(n)

\* from_canonical_u8(x): the argument is truncated to uint8_t
from_canonical_u8(n) == from_canonical_u32(<<0, n[2] % 256>>)

\* BabyBear::is_square(): base ^= 1006632960; return base == one()
is_square(a) == Pow(a, HALF_ORDER) = ONE

\* assert(*this != zero())
reciprocal_ok(a) == a # zero

reciprocal(a) == reciprocal_chain(a)

(***************************************************************************)
(* bb31_t (CUDA build).  The stored val is any uint32_t, a pair <<hi, lo>>: *)
(* a constructor takes it unreduced and sqr_n leaves it unreduced.         *)
(***************************************************************************)
CUDA_M == <<30719, 65535>>

\* the 32-bit product of two 16-bit halves, as <<hi, lo>>
mul16_sum(h, l) == <<h + (l \div W), l % W>>

mul16_parts(p1, p2) ==
  mul16_sum((p1 \div W) + (p2 \div 256), (p1 % W) + (p2 % 256) * 256)

mul16(a, b) == mul16_parts(a * (b % 256), a * (b \div 256))

\* the 64-bit product of two uint32_t, as <<bits 48..63, 32..47, 16..31, 0..15>>
mul_wide_carry(c0, s1, s2, s3) ==
  <<(s3 + ((s2 + (s1 \div W)) \div W)) % W, (s2 + (s1 \div W)) % W, s1 % W, c0>>

mul_wide_sum(ll, hl, lh, hh) ==
  mul_wide_carry(ll[2], ll[1] + hl[2] + lh[2], hl[1] + lh[1] + hh[2], hh[1])

mul_wide(a, b) ==
  mul_wide_sum(mul16(a[2], b[2]), mul16(a[1], b[2]), mul16(a[2], b[1]),
               mul16(a[1], b[1]))

\* mul.lo.u32 and mul.hi.u32
mul_lo(a, b) == <<mul_wide(a, b)[3], mul_wide(a, b)[4]>>

mul_hi(a, b) == <<mul_wide(a, b)[1], mul_wide(a, b)[2]>>

\* the carry out of mad.lo.cc.u32: 1 when a + b does not fit 32 bits
carry_out(a, b) == (a[1] + b[1] + ((a[2] + b[2]) \div W)) \div W

\* final_sub(val): setp.ge.u32 %p, val, MOD; @%p sub.u32 val, val, MOD
final_sub(v) == IF u32_lt(v, MOD32) THEN v ELSE u32_sub(v, MOD32)

\* mad.lo.cc.u32 tmp[0], red, MOD, tmp[0]; madc.hi.u32 val, red, MOD, tmp[1]
cuda_madc(lo, hi, red) ==
  after(red,
    u32_add(u32_add(mul_hi(red, MOD32), hi),
            <<0, carry_out(mul_lo(red, MOD32), lo)>>))

\* mul.lo/mul.hi of the operands, red = lo * M, then the mad pair: the
\* Montgomery product before final_sub
cuda_mont_wide(w) == cuda_madc(<<w[3], w[4]>>, <<w[1], w[2]>>, mul_lo(<<w[3], w[4]>>, CUDA_M))

cuda_mont(a, b) == after(a, after(b, cuda_mont_wide(mul_wide(a, b))))

\* mul(b): the Montgomery product, then final_sub(val)
cuda_mul(a, b) == final_sub(cuda_mont(a, b))

\* sqr_n(s, n): while (n--) { s = the Montgomery square of s;
\* if (n & 1) final_sub(s.val); } -- n is tested after its decrement
RECURSIVE cuda_sqr_n(_, _)
cuda_sqr_n(s, n) ==
  after(s,
    IF n = 0 THEN s
    ELSE cuda_sqr_n(IF (n - 1) % 2 = 1 THEN final_sub(cuda_mont(s, s))
                    ELSE cuda_mont(s, s), n - 1))

\* sqr_n_mul(s, n, m): s = sqr_n(s, n); s.mul(m)
cuda_sqr_n_mul(s, n, m) == cuda_mul(cuda_sqr_n(s, n), m)

\* reciprocal() of the CUDA build: no assertion; x11, then ret and xff
cuda_reciprocal_xff(x11, ret) ==
  after(ret,
    cuda_sqr_n_mul(
      cuda_sqr_n_mul(cuda_sqr_n_mul(ret, 8, cuda_sqr_n_mul(ret, 1, x11)), 8,
                     cuda_sqr_n_mul(ret, 1, x11)),
      8, cuda_sqr_n_mul(ret, 1, x11)))

cuda_reciprocal_x11(x11) ==
  after(x11,
    cuda_reciprocal_xff(x11, cuda_sqr_n_mul(cuda_sqr_n_mul(x11, 1, x11), 1, x11)))

cuda_reciprocal(a) == cuda_reciprocal_x11(cuda_sqr_n_mul(a, 4, a))

(***************************************************************************)
(* Input records.  NumRecords memory records and NumRecords syscall events *)
(* are tried; record number i is built from i, and every third one holds a *)
(* field that is no canonical field element.                               *)
(***************************************************************************)
NumRecords == 7

MemoryRecordAt(i) ==
  [shard |-> u32_of(i),
   timestamp |-> u32_of(7 * i + 1),
   addr |-> IF i % 3 = 0 THEN <<65535, 4 * i>> ELSE <<0, 4 * i>>,
   value |-> <<(4660 * i) % W, (22136 * i) % W>>]

SyscallEventAt(i) ==
  [shard |-> u32_of(i),
   clk |-> <<i, 24 * i>>,
   syscall_id |-> u32_of(256 + i),
   arg1 |-> IF i % 3 = 0 THEN <<61440, i>> ELSE <<16, 8 * i>>,
   arg2 |-> <<32, 4 * i>>]

\* (value >> sh) & 255 for sh = 0, 8, 16, 24
u32_byte(v, k) ==
  IF k = 0 THEN v[2] % 256
  ELSE IF k = 1 THEN v[2] \div 256
  ELSE IF k = 2 THEN v[1] % 256
  ELSE v[1] \div 256

\* 1 << 24 and 8 * (1 << 24), the tags added to the shard
\* populate_memory with the tag of populate_syscall
MEMORY_TAG_of_syscall == <<2048, 0>>

\* 1 << 24 and 8 * (1 << 24), added to the shard
MEMORY_TAG == <<256, 0>>

SYSCALL_TAG == <<2048, 0>>

\* populate_memory, the arguments of the seven from_canonical_u32 calls
memory_fields(r) ==
  <<u32_add(r.shard, MEMORY_TAG), r.timestamp, r.addr,
    <<0, u32_byte(r.value, 0)>>, <<0, u32_byte(r.value, 1)>>,
    <<0, u32_byte(r.value, 2)>>, <<0, u32_byte(r.value, 3)>>>>

\* populate_syscall, the arguments of the six from_canonical_u32 calls
syscall_fields(e) ==
  <<u32_add(e.shard, SYSCALL_TAG), <<0, e.clk[2]>>, <<0, e.clk[1]>>,
    e.syscall_id, e.arg1, e.arg2>>

fields_ok(f) == \A k \in 1..Len(f) : from_canonical_u32_ok(f[k])

\* x_start after the packing block of populate_memory
memory_x_start(r) ==
  LET f == memory_fields(r)
  IN <<from_canonical_u32(f[1]), from_canonical_u32(f[2]), from_canonical_u32(f[3]),
       from_canonical_u32(f[4]), from_canonical_u32(f[5]), from_canonical_u32(f[6]),
       from_canonical_u32(f[7])>>

\* x_start after the packing block of populate_syscall
syscall_x_start(e) ==
  LET f == syscall_fields(e)
  IN <<from_canonical_u32(f[1]), from_canonical_u32(f[2]), from_canonical_u32(f[3]),
       from_canonical_u32(f[4]), from_canonical_u32(f[5]), from_canonical_u32(f[6]),
       zero>>

\* a step of 1 in the place of 1 << 16
OFFSET_STEP_of_one == to_monty(<<0, 1>>)

\* F::from_canonical_u32(1 << 16), the step of x_start
OFFSET_STEP == to_monty(<<1, 0>>)

MAX_OFFSET == 256

(***************************************************************************)
(* The encoder as a state machine.  One behaviour encodes one record, once *)
(* per direction, as event_to_row does with its two calls; cols[d] is the  *)
(* GlobalInteractionOperation the call with is_receive = d writes into.    *)
(***************************************************************************)
VARIABLES
  kind,        \* "memory" (populate_memory) or "syscall" (populate_syscall)
  record,      \* the MemoryRecord with addr, or the SyscallEvent
  recv,        \* the is_receive argument of the running call
  pc,          \* the position of the running call
  offset,      \* the loop counter
  x_start, x_trial, y_sq, y_sq_pow_r, y,   \* the locals of the loop body
  sq,          \* the locals of sqrt
  cip,         \* the locals of bb31_cipolla_t::pow
  cols,        \* the output records, by direction
  fld,         \* SpecField: one call of a base-field or extension operation
  pk           \* SpecCurve: one addition; SpecPack: the loops of the other kind

vars == <<kind, record, recv, pc, offset, x_start, x_trial, y_sq, y_sq_pow_r, y,
          sq, cip, cols, fld, pk>>

\* The locals of sqrt; rounds is auxiliary, the number of rounds the search
\* for `a` has made.
no_sq == [n_iter |-> ext_zero, n_power |-> ext_zero, i |-> 0,
          denominator |-> ext_zero, base |-> zero, a |-> zero, nonresidue |-> zero,
          rounds |-> 0]

no_cip == [result |-> <<zero, zero>>, base |-> <<zero, zero>>, exponent |-> 0]

unwritten == [written |-> FALSE]

\* no call of SpecField is under way; the encoders are instantiated over
\* bb31_septic_extension_t, whose accumulators start from zero()
no_call == [op |-> "none", found |-> zero]

no_pair == [status |-> "none"]

\* No call of the encoder has started.
encoder_idle ==
  /\ recv = TRUE
  /\ pc = "idle"
  /\ offset = 0
  /\ x_start = ext_zero
  /\ x_trial = ext_zero
  /\ y_sq = ext_zero
  /\ y_sq_pow_r = zero
  /\ y = ext_zero
  /\ sq = no_sq
  /\ cip = no_cip
  /\ cols = [d \in BOOLEAN |-> unwritten]

Init ==
  /\ kind \in {"memory", "syscall"}
  /\ \E n \in 1..NumRecords :
       record = IF kind = "memory" THEN MemoryRecordAt(n) ELSE SyscallEventAt(n)
  /\ encoder_idle
  /\ fld = no_call
  /\ pk = no_pair

\* A call starts: the packing block.  A field that fails the assertion of
\* from_canonical_u32 ends the process.
pack(flag, fields, start) ==
  /\ pc \in {"idle", "returned"}
  /\ ~cols[flag].written
  /\ recv' = flag
  /\ offset' = 0
  /\ x_trial' = ext_zero
  /\ y_sq' = ext_zero
  /\ y_sq_pow_r' = zero
  /\ y' = ext_zero
  /\ sq' = no_sq
  /\ cip' = no_cip
  /\ IF fields_ok(fields)
       THEN x_start' = start /\ pc' = "loop"
       ELSE x_start' = ext_zero /\ pc' = "abort_from_canonical"
  /\ UNCHANGED <<fld, pk, kind, record, cols>>

populate_memory(flag) ==
  /\ kind = "memory"
  /\ pack(flag, memory_fields(record), memory_x_start(record))

populate_syscall(flag) ==
  /\ kind = "syscall"
  /\ pack(flag, syscall_fields(record), syscall_x_start(record))

\* assert(false) compiled out: the call returns behind the loop
assert_false_returns == "returned"

\* assert(false) behind the loop: the call ends there, nothing is written
\* and nothing returns.
assert_false == "assert_false"

\* a loop that gives up one offset early
loop_test_short(k) == k < MAX_OFFSET - 1

\* the loop test of for (offset = 0; offset < 256; offset++)
loop_test(k) == k < MAX_OFFSET

\* The loop test, then x_trial = x_start.universal_hash(); assert(false)
\* behind the loop.
loop_head ==
  /\ pc = "loop"
  /\ IF loop_test(offset)
       THEN x_trial' = universal_hash(x_start) /\ pc' = "curve"
       ELSE x_trial' = x_trial /\ pc' = assert_false
  /\ UNCHANGED <<fld, pk, kind, record, recv, offset, x_start, y_sq, y_sq_pow_r, y, sq,
                 cip, cols>>

\* y_sq = x_trial.curve_formula()
trial_curve ==
  /\ pc = "curve"
  /\ y_sq' = curve_formula(x_trial)
  /\ pc' = "pow_r"
  /\ UNCHANGED <<fld, pk, kind, record, recv, offset, x_start, x_trial, y_sq_pow_r, y,
                 sq, cip, cols>>

\* y_sq_pow_r = y_sq.pow_r()
trial_pow_r ==
  /\ pc = "pow_r"
  /\ y_sq_pow_r' = pow_r(y_sq)
  /\ pc' = "test"
  /\ UNCHANGED <<fld, pk, kind, record, recv, offset, x_start, x_trial, y_sq, y, sq,
                 cip, cols>>

\* is_square = y_sq_pow_r ^ 1006632960; if (is_square == one()) sqrt is
\* entered, else x_start += from_canonical_u32(1 << 16) and the next offset.
test_square ==
  /\ pc = "test"
  /\ IF Pow(y_sq_pow_r, HALF_ORDER) = ONE
       THEN /\ IF y_sq = ext_zero
                 THEN y' = y_sq /\ pc' = "after_sqrt" /\ sq' = no_sq
                 ELSE /\ sq' = [no_sq EXCEPT !.n_iter = y_sq, !.n_power = y_sq, !.i = 1]
                      /\ pc' = "sqrt_pow"
                      /\ y' = y
            /\ UNCHANGED <<offset, x_start>>
       ELSE /\ x_start' = ext_add_base(x_start, OFFSET_STEP)
            /\ offset' = offset + 1
            /\ pc' = "loop"
            /\ UNCHANGED <<y, sq>>
  /\ UNCHANGED <<fld, pk, kind, record, recv, x_trial, y_sq, y_sq_pow_r, cip, cols>>

\* sqrt of the class under call, whose accumulators start from fld.found:
\* one round of the loop over i = 1..29.
sqrt_pow_step ==
  /\ pc = "sqrt_pow"
  /\ sq.i < 30
  /\ LET it == septic_mul(fld.found, sq.n_iter, sq.n_iter)
     IN sq' = [sq EXCEPT !.n_iter = it,
                         !.n_power = IF sq.i >= 26
                                       THEN septic_mul(fld.found, sq.n_power, it)
                                       ELSE sq.n_power,
                         !.i = sq.i + 1]
  /\ UNCHANGED <<fld, pk, kind, record, recv, pc, offset, x_start, x_trial, y_sq,
                 y_sq_pow_r, y, cip, cols>>

\* sqrt: base = pow_r.reciprocal(); a = one(); nonresidue = one() - base
sqrt_search_start(locals, base) ==
  [locals EXCEPT !.base = base, !.a = ONE, !.nonresidue = Sub(ONE, base)]

\* sqrt: the denominator, then the locals of the search.
sqrt_setup ==
  /\ pc = "sqrt_pow"
  /\ sq.i >= 30
  /\ IF reciprocal_ok(y_sq_pow_r)
       THEN /\ sq' = sqrt_search_start(
                         [sq EXCEPT !.denominator =
                            septic_sqrt_denominator(fld.found, sq.n_power, y_sq)],
                         reciprocal(y_sq_pow_r))
            /\ pc' = "sqrt_search"
       ELSE pc' = "abort_reciprocal" /\ sq' = sq
  /\ UNCHANGED <<fld, pk, kind, record, recv, offset, x_start, x_trial, y_sq,
                 y_sq_pow_r, y, cip, cols>>

\* sqrt: one round of while (true) { is_square = nonresidue ^ 1006632960;
\* if (is_square != one()) break; a *= g; nonresidue = a.square() - base; }
sqrt_search ==
  /\ pc = "sqrt_search"
  /\ IF Pow(sq.nonresidue, HALF_ORDER) # ONE
       THEN /\ cip' = [result |-> <<ONE, zero>>, base |-> <<sq.a, ONE>>,
                       exponent |-> CIPOLLA_EXP]
            /\ pc' = "cipolla"
            /\ sq' = sq
       ELSE LET a2 == Mul(sq.a, sqrt_g)
            IN /\ sq' = [sq EXCEPT !.a = a2, !.nonresidue = Sub(square(a2), sq.base),
                                   !.rounds = sq.rounds + 1]
               /\ UNCHANGED <<pc, cip>>
  /\ UNCHANGED <<fld, pk, kind, record, recv, offset, x_start, x_trial, y_sq,
                 y_sq_pow_r, y, cols>>

\* bb31_cipolla_t::pow: one round of while (exponent).
cipolla_step ==
  /\ pc = "cipolla"
  /\ cip.exponent # 0
  /\ cip' = [result |-> IF cip.exponent % 2 = 1
                          THEN mul_ext(cip.result, cip.base, sq.nonresidue)
                          ELSE cip.result,
             base |-> mul_ext(cip.base, cip.base, sq.nonresidue),
             exponent |-> cip.exponent \div 2]
  /\ UNCHANGED <<fld, pk, kind, record, recv, pc, offset, x_start, x_trial, y_sq,
                 y_sq_pow_r, y, sq, cols>>

\* sqrt returns denominator * x.real
sqrt_return ==
  /\ pc = "cipolla"
  /\ cip.exponent = 0
  /\ y' = ext_mul_base(sq.denominator, cip.result[1])
  /\ pc' = "after_sqrt"
  /\ sq' = no_sq
  /\ cip' = no_cip
  /\ UNCHANGED <<fld, pk, kind, record, recv, offset, x_start, x_trial, y_sq,
                 y_sq_pow_r, cols>>

\* the root kept as sqrt returned it
flip_never(yy, flag) == yy

\* the root negated whatever its side
flip_always(yy, flag) == ext_sub(ext_zero, yy)

\* if (y.is_receive() != is_receive) y = EF7::zero() - y
flip(yy, flag) == IF is_receive(yy) # flag THEN ext_sub(ext_zero, yy) ELSE yy

\* if (y.is_exception()) continue;  -- the loop counter advances, x_start
\* does not.  Otherwise the flip, and the columns are written next.
after_sqrt ==
  /\ pc = "after_sqrt"
  /\ IF is_exception(y)
       THEN offset' = offset + 1 /\ pc' = "loop" /\ y' = y
       ELSE /\ y' = flip(y, recv)
            /\ pc' = "write"
            /\ offset' = offset
  /\ UNCHANGED <<fld, pk, kind, record, recv, x_start, x_trial, y_sq, y_sq_pow_r, sq,
                 cip, cols>>

\* range_check_value taken as for a receive in both directions
range_check_value_of_receive(yy, flag) ==
  u32_sub(u32_of(as_canonical_u32(at(yy, 6))), <<0, 1>>)

\* range_check_value, a uint32_t
range_check_value(yy, flag) ==
  IF flag
    THEN u32_sub(u32_of(as_canonical_u32(at(yy, 6))), <<0, 1>>)
    ELSE u32_sub(u32_of(as_canonical_u32(at(yy, 6))), u32_of((MOD + 1) \div 2))

\* write_word_from_u32_v2
write_word_from_u32_v2(v) ==
  <<from_canonical_u8(v), from_canonical_u8(<<0, v[2] \div 256>>),
    from_canonical_u8(<<0, v[1]>>), from_canonical_u8(<<0, v[1] \div 256>>)>>

\* populate_memory: the output columns, then return
write_memory ==
  /\ pc = "write"
  /\ kind = "memory"
  /\ cols' = [cols EXCEPT ![recv] =
       [written |-> TRUE,
        offset |-> from_canonical_u32(u32_of(offset)),
        x_coordinate |-> x_trial,
        y_coordinate |-> y,
        y6_byte_decomp |-> write_word_from_u32_v2(range_check_value(y, recv))]]
  /\ pc' = "returned"
  /\ UNCHANGED <<fld, pk, kind, record, recv, offset, x_start, x_trial, y_sq,
                 y_sq_pow_r, y, sq, cip>>

\* (v >> idx) & 1
u32_bit(v, idx) ==
  IF idx < 16 THEN (v[2] \div (2 ^ idx)) % 2 ELSE (v[1] \div (2 ^ (idx - 16))) % 2

\* populate_syscall: the output columns, then return; the reciprocal of
\* top_4_bits asserts that it is not zero
write_syscall ==
  /\ pc = "write"
  /\ kind = "syscall"
  /\ LET rc == range_check_value(y, recv)
         bits == [idx \in 0..29 |-> from_canonical_u32(<<0, u32_bit(rc, idx)>>)]
         top_4_bits == Sub(Add(Add(Add(Add(zero, bits[26]), bits[27]), bits[28]),
                               bits[29]),
                           from_canonical_u32(<<0, 4>>))
     IN IF reciprocal_ok(top_4_bits)
          THEN /\ cols' = [cols EXCEPT ![recv] =
                    [written |-> TRUE,
                     offset_bits |-> [idx \in 0..7 |->
                        from_canonical_u32(<<0, (offset \div (2 ^ idx)) % 2>>)],
                     x_coordinate |-> x_trial,
                     y_coordinate |-> y,
                     y6_bit_decomp |-> bits,
                     range_check_witness |-> reciprocal(top_4_bits)]]
               /\ pc' = "returned"
          ELSE cols' = cols /\ pc' = "abort_reciprocal"
  /\ UNCHANGED <<fld, pk, kind, record, recv, offset, x_start, x_trial, y_sq,
                 y_sq_pow_r, y, sq, cip>>

Next ==
  \/ \E d \in BOOLEAN : populate_memory(d)
  \/ \E d \in BOOLEAN : populate_syscall(d)
  \/ loop_head
  \/ trial_curve
  \/ trial_pow_r
  \/ test_square
  \/ sqrt_pow_step
  \/ sqrt_setup
  \/ sqrt_search
  \/ cipolla_step
  \/ sqrt_return
  \/ after_sqrt
  \/ write_memory
  \/ write_syscall

Spec == Init /\ [][Next]_vars

(***************************************************************************)
(* SpecLoop: the calls of the encoder on one record, run as the code runs  *)
(* them, on the first record of each kind, on a syscall event whose trial  *)
(* at offset 0 is a square with an exceptional root and on one whose root  *)
(* stands at the ends of the two ranges.  After an exceptional root        *)
(* `continue` skips x_start += F::from_canonical_u32(1 << 16), so that     *)
(* every later trial repeats the first one and the call ends behind the    *)
(* loop.  The memory record with an exceptional root is run by SpecPack.   *)
(***************************************************************************)
\* shard 1, clk = 4 * 2^16 + 7, syscall_id 2, arg1 2, arg2 1449769145: y_sq
\* of offset 0 is a square and y_sq.sqrt(y_sq_pow_r).value[6] is zero
ExceptionalSyscallEvent ==
  [shard |-> <<0, 1>>, clk |-> <<4, 7>>, syscall_id |-> <<0, 2>>,
   arg1 |-> <<0, 2>>, arg2 |-> <<22121, 47289>>]

\* shard 1, timestamp 5, addr 1373059276, value bytes (1, 2, 3, 0): y_sq of
\* offset 0 is a square and y_sq.sqrt(y_sq_pow_r).value[6] is zero
ExceptionalMemoryRecord ==
  [shard |-> <<0, 1>>, timestamp |-> <<0, 5>>, addr |-> <<20951, 14540>>,
   value |-> <<3, 513>>]

\* shard 1, clk = 4 * 2^16 + 7, syscall_id 4, arg1 2, arg2 67190901: y_sq
\* of offset 0 is a square whose roots have 1 and p - 1 as coefficient 6,
\* the least y6 of a receive and the greatest y6 of a send
BoundarySyscallEvent ==
  [shard |-> <<0, 1>>, clk |-> <<4, 7>>, syscall_id |-> <<0, 4>>,
   arg1 |-> <<0, 2>>, arg2 |-> <<1025, 16501>>]

LoopMemoryRecords == {MemoryRecordAt(1)}

LoopSyscallEvents ==
  {SyscallEventAt(1), ExceptionalSyscallEvent, BoundarySyscallEvent}

\* elements by their canonical coefficient 6: exceptional, the ends of the
\* receive range and the ends of the send range
root_sample(c) == <<ONE, zero, zero, zero, zero, zero, to_monty(u32_of(c))>>

RootSamples ==
  {root_sample(0), root_sample(1), root_sample((MOD - 1) \div 2),
   root_sample((MOD + 1) \div 2), root_sample(MOD - 1)}

\* the packed element of the record
packed_start ==
  IF kind = "memory" THEN memory_x_start(record) ELSE syscall_x_start(record)

InitLoop ==
  /\ kind \in {"memory", "syscall"}
  /\ record \in IF kind = "memory" THEN LoopMemoryRecords ELSE LoopSyscallEvents
  /\ encoder_idle
  /\ fld = no_call
  /\ pk = no_pair

SpecLoop == InitLoop /\ [][Next]_vars

(***************************************************************************)
(* SpecField: one call of from_canonical_u32/u16/u8, of reciprocal or of   *)
(* the extension's reciprocal and operator/, in one of the three classes   *)
(* of the base field.  The extension is BabyBearSeptic over BabyBear and   *)
(* bb31_septic_extension_t over bb31_t; fld.found is the val that the      *)
(* class leaves in an accumulator it declares: zero, or indeterminate.     *)
(***************************************************************************)
Variants == {"BabyBear", "bb31_t host", "bb31_t CUDA"}

NumFieldInputs == 8

\* uint32_t arguments: around 0, around MOD from both sides, around 2^32
U32Inputs ==
  UNION {{u32_of(n), u32_sub(MOD32, u32_of(n + 1)), u32_add(MOD32, u32_of(n)),
          u32_sub(<<W - 1, W - 1>>, u32_of(n))} : n \in 0..NumFieldInputs}

U16Inputs == UNION {{n, W - 1 - n} : n \in 0..NumFieldInputs}

U8Inputs == UNION {{n, 255 - n} : n \in 0..NumFieldInputs}

\* field elements, by their stored val
\* canonical values at the ends of the field and of its 16-bit limbs:
\* p - 1, p - 2, (p + 1) / 2, 2^16 - 1, 2^16 and 2^30
EdgeValues ==
  {<<30720, 0>>, <<30719, 65535>>, <<15360, 1>>, <<0, 65535>>, <<1, 0>>,
   <<16384, 0>>}

ElementInputs ==
  {u32_of(to_monty(u32_of(n))) : n \in 0..NumFieldInputs}
    \cup {u32_of(to_monty(n)) : n \in EdgeValues}

\* extension elements: zero, one, two and the powers x, x^6 of the generator;
\* elements with no coefficient zero: the two constants of the curve's
\* logup points, their product and the Frobenius image of x
ExtInputs ==
  {ext_zero, ext_one, ext_from_base(two),
   <<zero, ONE, zero, zero, zero, zero, zero>>,
   <<zero, zero, zero, zero, zero, zero, ONE>>,
   A_EC_LOGUP, B_EC_LOGUP, ext_mul(A_EC_LOGUP, B_EC_LOGUP),
   frobenius(<<zero, ONE, zero, zero, zero, zero, zero>>)}

\* assert(n < MOD) stands in BabyBear::from_canonical_u32 and in the host
\* build of bb31_t, not in the CUDA build.
from_canonical_u32_asserts(variant) == variant # "bb31_t CUDA"

\* assert(*this != zero()) stands in BabyBear::reciprocal and in the host
\* build of bb31_t, not in the CUDA build.
reciprocal_asserts(variant) == variant # "bb31_t CUDA"

\* the stored val of a host element as a uint32_t, and back
val_of(v) == v[1] * W + v[2]

\* reciprocal() of an extension element: pow_r_1 * pow_r.value[0].reciprocal()
\* for pow_r = pow_r_1 * *this; BabyBear::reciprocal and the host build of
\* bb31_t assert that pow_r.value[0] is not zero
septic_pow_r(found, pow_r1, a) == after(pow_r1, at(septic_mul(found, pow_r1, a), 0))

\* the answers of pow_r.value[0] == zero() in the assertion of reciprocal()
septic_reciprocal_of_zero(found, a) ==
  equal_outcomes(septic_pow_r(found, septic_pow_r_1(found, a), a), zero)

septic_reciprocal_with(found, pow_r1, a) ==
  after(pow_r1, ext_mul_base(pow_r1, reciprocal(septic_pow_r(found, pow_r1, a))))

septic_reciprocal(found, a) ==
  septic_reciprocal_with(found, septic_pow_r_1(found, a), a)

\* reciprocal() of bb31_septic_extension_t
ext_reciprocal_ok(a) == FALSE \in septic_reciprocal_of_zero(zero, a)

ext_reciprocal(a) == septic_reciprocal(zero, a)

\* operator/(a, b) = a * b.reciprocal()
ext_div(a, b) == ext_mul(a, ext_reciprocal(b))

idle_call(variant, found) ==
  [variant |-> variant, found |-> found, op |-> "none", arg |-> <<0, 0>>,
   status |-> "idle", val |-> <<0, 0>>]

InitField ==
  /\ kind = "memory"
  /\ record = MemoryRecordAt(1)
  /\ encoder_idle
  /\ pk = no_pair
  /\ \E variant \in Variants :
       fld = idle_call(variant, IF variant = "BabyBear" THEN indeterminate ELSE zero)

ends(op, arg, status, val) ==
  /\ fld' = [fld EXCEPT !.op = op, !.arg = arg, !.status = status, !.val = val]
  /\ UNCHANGED <<kind, record, recv, pc, offset, x_start, x_trial, y_sq,
                 y_sq_pow_r, y, sq, cip, cols, pk>>

\* from_canonical_u32(n), called as op
from_canonical(op, n) ==
  IF from_canonical_u32_asserts(fld.variant) /\ ~from_canonical_u32_ok(n)
    THEN ends(op, n, "aborted", fld.val)
    ELSE ends(op, n, "returned", u32_of(from_canonical_u32(n)))

call_from_canonical_u32 ==
  /\ fld.status = "idle"
  /\ \E n \in U32Inputs : from_canonical("from_canonical_u32", n)

\* from_canonical_u16(n) = from_canonical_u32((uint32_t)n)
call_from_canonical_u16 ==
  /\ fld.status = "idle"
  /\ \E n \in U16Inputs : from_canonical("from_canonical_u16", <<0, n>>)

\* from_canonical_u8(n) = from_canonical_u32((uint32_t)n)
call_from_canonical_u8 ==
  /\ fld.status = "idle"
  /\ \E n \in U8Inputs : from_canonical("from_canonical_u8", <<0, n>>)

call_reciprocal ==
  /\ fld.status = "idle"
  /\ \E a \in ElementInputs :
       IF ~reciprocal_asserts(fld.variant)
         THEN ends("reciprocal", a, "returned", cuda_reciprocal(a))
         ELSE IF reciprocal_ok(val_of(a))
                THEN ends("reciprocal", a, "returned", u32_of(reciprocal(val_of(a))))
                ELSE ends("reciprocal", a, "aborted", fld.val)

\* the squares r * r and the products 31 * r * r of the elements r tried
SquareInputs ==
  {u32_of(Mul(val_of(r), val_of(r))) : r \in ElementInputs}
    \cup {u32_of(Mul(sqrt_g, Mul(val_of(r), val_of(r)))) : r \in ElementInputs}

\* is_square() is a member of BabyBear alone
call_is_square ==
  /\ fld.status = "idle"
  /\ fld.variant = "BabyBear"
  /\ \E a \in SquareInputs :
       ends("is_square", a, "returned", is_square(val_of(a)))

\* pow_r(): the local pow_r = pow_r_1() * *this, and the loop
\* assert(pow_r.value[i] == zero()) for i in 1..6.  The assertion stands in
\* BabyBearSeptic::pow_r and in bb31_septic_extension_t.cpp, not in the
\* inline definition of bb31_septic_extension_t.hpp.
pow_r_asserts(variant) == variant # "bb31_t CUDA"

pow_r_product(a) == septic_mul(fld.found, septic_pow_r_1(fld.found, a), a)

\* the answers of the loop of assertions: it passes when every comparison
\* can answer true, it fails when one can answer false
pow_r_ok(product) ==
  {ok \in BOOLEAN :
     IF ok THEN \A i \in 1..6 : TRUE \in equal_outcomes(at(product, i), zero)
     ELSE \E i \in 1..6 : FALSE \in equal_outcomes(at(product, i), zero)}

\* val holds the local pow_r; the call returns its value[0]
call_pow_r ==
  /\ fld.status = "idle"
  /\ \E a \in ExtInputs :
       \E product \in {pow_r_product(a)} :
         \E ok \in pow_r_ok(product) :
           IF pow_r_asserts(fld.variant) /\ ~ok
             THEN ends("pow_r", a, "aborted", product)
             ELSE ends("pow_r", a, "returned", product)

\* write_word_from_u32<F>: word._0[k] = F::from_canonical_u8(value >> 8k).val
write_word_from_u32(v) == write_word_from_u32_v2(v)

\* word_to_u32<F>: the bytes (uint8_t)F(word._0[k]).as_canonical_u32(),
\* summed as the source indexes them: _0[0], then _0[1] shifted by 8, by 16
\* and by 24
word_to_u32(word) ==
  <<((as_canonical_u32(word[2]) % 256) + 256 * (as_canonical_u32(word[2]) % 256)) % W,
    (as_canonical_u32(word[1]) % 256) + 256 * (as_canonical_u32(word[2]) % 256)>>

\* a value is packed with write_word_from_u32 and read with word_to_u32
call_word_to_u32 ==
  /\ fld.status = "idle"
  /\ fld.variant = "bb31_t host"
  /\ \E v \in U32Inputs :
       ends("word_to_u32", v, "returned", word_to_u32(write_word_from_u32(v)))

\* canonical values a, b in [0, p): from_canonical_u32 of both, then
\* as_canonical_u32 of the first, of the sum, of the difference and of the
\* product
CanonicalInputs == {u32_of(n) : n \in 0..NumFieldInputs} \cup EdgeValues

call_arithmetic ==
  /\ fld.status = "idle"
  /\ fld.variant = "bb31_t host"
  /\ \E a \in CanonicalInputs, b \in CanonicalInputs :
       ends("arithmetic", <<a, b>>, "returned",
            <<as_canonical_u32(from_canonical_u32(a)),
              as_canonical_u32(Add(from_canonical_u32(a), from_canonical_u32(b))),
              as_canonical_u32(Sub(from_canonical_u32(a), from_canonical_u32(b))),
              as_canonical_u32(Mul(from_canonical_u32(a), from_canonical_u32(b)))>>)

\* stored values in [0, p): those of ElementInputs, 1 and p - 1
StoredInputs == {val_of(a) : a \in ElementInputs} \cup {1, MOD - 1}

\* shift counts of operator<<
ShiftInputs == {0, 1, 31}

\* the elements returned by from_bool, +, -, *, <<, square, exp_power_of_2
\* and reciprocal on the stored values a and b; reciprocal() of zero stops
\* in its assertion and returns none
call_operators ==
  /\ fld.status = "idle"
  /\ fld.variant = "bb31_t host"
  /\ \E a \in StoredInputs, b \in StoredInputs, l \in ShiftInputs :
       ends("operators", <<a, b, l>>, "returned",
            <<from_bool(a < b), Add(a, b), Sub(a, b), Mul(a, b),
              operator_shl(a, l), square(a), exp_power_of_2(a, l)>>
              \o (IF reciprocal_ok(a) THEN <<reciprocal(a)>> ELSE <<>>))

\* a.reciprocal() of BabyBearSeptic or of bb31_septic_extension_t over the
\* host build of bb31_t
call_ext_reciprocal ==
  /\ fld.status = "idle"
  /\ fld.variant # "bb31_t CUDA"
  /\ \E a \in ExtInputs :
       \E is_zero \in septic_reciprocal_of_zero(fld.found, a) :
         IF is_zero
           THEN ends("ext_reciprocal", a, "aborted", fld.val)
           ELSE ends("ext_reciprocal", a, "returned", septic_reciprocal(fld.found, a))

\* two() / b = two() * b.reciprocal()
call_ext_div ==
  /\ fld.status = "idle"
  /\ fld.variant # "bb31_t CUDA"
  /\ \E b \in ExtInputs :
       \E is_zero \in septic_reciprocal_of_zero(fld.found, b) :
         IF is_zero
           THEN ends("ext_div", b, "aborted", fld.val)
           ELSE ends("ext_div", b, "returned",
                     septic_mul(fld.found, ext_from_base(two),
                                septic_reciprocal(fld.found, b)))

NextField ==
  \/ call_from_canonical_u32
  \/ call_from_canonical_u16
  \/ call_from_canonical_u8
  \/ call_reciprocal
  \/ call_is_square
  \/ call_pow_r
  \/ call_word_to_u32
  \/ call_arithmetic
  \/ call_operators
  \/ call_ext_reciprocal
  \/ call_ext_div

SpecField == InitField /\ [][NextField]_vars

(***************************************************************************)
(* Calls of frobenius() of the extension, from the states of InitField.    *)
(***************************************************************************)
\* frobenius() of two elements, of their sum and of their product
call_frobenius_pair ==
  /\ fld.status = "idle"
  /\ fld.variant # "bb31_t CUDA"
  /\ \E a \in ExtInputs, b \in ExtInputs :
       ends("frobenius_pair", <<a, b>>, "returned",
            <<septic_frobenius_with(fld.found, a, frobenius_const),
              septic_frobenius_with(fld.found, b, frobenius_const),
              septic_frobenius_with(fld.found, ext_add(a, b), frobenius_const),
              septic_frobenius_with(fld.found, septic_mul(fld.found, a, b),
                                    frobenius_const)>>)

\* frobenius() of an element, and frobenius() of the result again, up to
\* seven in a row; val counts them and keeps double_frobenius() of the
\* element
call_frobenius ==
  /\ fld.status = "idle"
  /\ fld.variant # "bb31_t CUDA"
  /\ \E a \in ExtInputs :
       ends("frobenius", a, "returned",
            [n |-> 1, res |-> septic_frobenius_with(fld.found, a, frobenius_const),
             double |-> septic_frobenius_with(fld.found, a, double_frobenius_const)])

call_frobenius_again ==
  /\ fld.op = "frobenius"
  /\ fld.val.n < 7
  /\ ends("frobenius", fld.arg, "returned",
          [fld.val EXCEPT !.n = fld.val.n + 1,
                          !.res = septic_frobenius_with(fld.found, fld.val.res,
                                                        frobenius_const)])

\* a * b of two extension elements
call_ext_mul ==
  /\ fld.status = "idle"
  /\ fld.variant # "bb31_t CUDA"
  /\ \E a \in ExtInputs, b \in ExtInputs :
       ends("ext_mul", <<a, b>>, "returned", septic_mul(fld.found, a, b))

\* pow_r_1() of an extension element
call_pow_r_1 ==
  /\ fld.status = "idle"
  /\ fld.variant # "bb31_t CUDA"
  /\ \E a \in ExtInputs :
       ends("pow_r_1", a, "returned", septic_pow_r_1(fld.found, a))

\* is_receive(), is_send() and is_exception() of an element and of
\* zero() - element
call_classify ==
  /\ fld.status = "idle"
  /\ fld.variant = "bb31_t host"
  /\ \E a \in ExtInputs \cup RootSamples :
       ends("classify", a, "returned",
            [of |-> <<is_receive(a), is_send(a), is_exception(a)>>,
             of_negated |-> <<is_receive(ext_sub(ext_zero, a)),
                              is_send(ext_sub(ext_zero, a)),
                              is_exception(ext_sub(ext_zero, a))>>])

NextExt ==
  \/ call_ext_mul
  \/ call_classify
  \/ call_pow_r_1
  \/ call_frobenius_pair
  \/ call_frobenius
  \/ call_frobenius_again

SpecExt == InitField /\ [][NextExt]_vars

(***************************************************************************)
(* SpecPack: the calls of the encoder on memory records and syscall events *)
(* that are packed alike in every field but the shard, and on the memory   *)
(* record whose root at offset 0 is exceptional, run as SpecLoop runs      *)
(* them.  For every record of either kind the elements x_start and x_trial *)
(* of its loop are tabled at each of the offsets 0..255; a running call,   *)
(* and the table of its record, are compared with the tables of the other  *)
(* kind.                                                                   *)
(***************************************************************************)
NumPackShards == 2

\* shards below 1 << 24: the least ones and the greatest, (1 << 24) - 1
PackShards == {u32_of(i) : i \in 1..NumPackShards} \cup {<<255, W - 1>>}

\* further shards of a memory record: 7 * 2^24 + 1, and 0x77000001, for
\* which shard + (1 << 24) is no canonical field element
PackMemoryShards == PackShards \cup {<<1792, 1>>, <<30464, 1>>}

\* further shards of a syscall event: 0xF9000001, for which the uint32_t
\* sum shard + 8 * (1 << 24) wraps, and 0x70000001, for which the sum is
\* no canonical field element
PackSyscallShards == PackShards \cup {<<63744, 1>>, <<28672, 1>>}

\* timestamp 7, addr 4, value bytes (1, 2, 3, 0)
PackMemoryRecord(shard) ==
  [shard |-> shard, timestamp |-> <<0, 7>>, addr |-> <<0, 4>>, value |-> <<3, 513>>]

\* clk = 4 * 2^16 + 7, syscall_id 1, arg1 2, arg2 3
PackSyscallEvent(shard) ==
  [shard |-> shard, clk |-> <<4, 7>>, syscall_id |-> <<0, 1>>,
   arg1 |-> <<0, 2>>, arg2 |-> <<0, 3>>]

PackMemoryRecords ==
  {PackMemoryRecord(s) : s \in PackMemoryShards} \cup {ExceptionalMemoryRecord}

PackSyscallEvents == {PackSyscallEvent(s) : s \in PackSyscallShards}

\* x_start after n executions of x_start += F::from_canonical_u32(1 << 16)
RECURSIVE x_stepped(_, _)
x_stepped(x, n) ==
  after(x, IF n = 0 THEN x
           ELSE IF n = 1 THEN ext_add_base(x, OFFSET_STEP)
           ELSE x_stepped(x_stepped(x, n \div 2), n - n \div 2))

\* one offset of the loop: x_start and x_trial = x_start.universal_hash()
trial_of(x) == after(x, [x_start |-> x, x_trial |-> universal_hash(x)])

\* the loop from x_start = x on, every trial failing the test: x_start and
\* x_trial at each of the offsets 0..255, entry j standing for offset j - 1.
\* A call in which `continue` is taken holds, at a later offset, the
\* x_start and the x_trial of an earlier entry.
trials_from(x) ==
  SubSeq([j \in 1..MAX_OFFSET |-> trial_of(x_stepped(x, j - 1))], 1, MAX_OFFSET)

\* the loops of the records of the other kind than k on which packing
\* succeeds
other_trials(k) ==
  IF k = "memory"
    THEN {[record |-> e, trials |-> trials_from(syscall_x_start(e))] :
            e \in {c \in PackSyscallEvents : fields_ok(syscall_fields(c))}}
    ELSE {[record |-> r, trials |-> trials_from(memory_x_start(r))] :
            r \in {m \in PackMemoryRecords : fields_ok(memory_fields(m))}}

InitPack ==
  /\ kind \in {"memory", "syscall"}
  /\ pk = [status |-> "tabled",
            trials |-> other_trials(kind),
            own |-> other_trials(IF kind = "memory" THEN "syscall" ELSE "memory")]
  /\ record \in IF kind = "memory" THEN PackMemoryRecords ELSE PackSyscallEvents
  /\ encoder_idle
  /\ fld = no_call

SpecPack == InitPack /\ [][Next]_vars

(***************************************************************************)
(* sqrt called on its own, of bb31_septic_extension_t or of BabyBearSeptic. *)
(* The argument is the square of a known element, zero included, and pow_r *)
(* is its norm; the call runs in the encoder's variables y_sq, y_sq_pow_r, *)
(* sq, cip and y, from pc = "sqrt" to pc = "after_sqrt".                   *)
(***************************************************************************)
NumSqrtRoots == 2

\* the element number n whose square is tried: n * (A + n * B)
sqrt_root(n) ==
  ext_mul_base(ext_add(A_EC_LOGUP, ext_mul_base(B_EC_LOGUP, to_monty(u32_of(n)))),
               to_monty(u32_of(n)))

SqrtInputs ==
  {ext_mul(r, r) :
     r \in {sqrt_root(n) : n \in 0..NumSqrtRoots}
            \cup {ext_one, <<zero, ONE, zero, zero, zero, zero, zero>>}}

InitSqrt ==
  /\ kind = "memory"
  /\ record = MemoryRecordAt(1)
  /\ recv = TRUE
  /\ pc = "sqrt"
  /\ offset = 0
  /\ x_start = ext_zero
  /\ x_trial = ext_zero
  /\ \E a \in SqrtInputs : y_sq = a /\ y_sq_pow_r = pow_r(a)
  /\ y = ext_zero
  /\ sq = no_sq
  /\ cip = no_cip
  /\ cols = [d \in BOOLEAN |-> unwritten]
  /\ \E variant \in {"BabyBear", "bb31_t host"} :
       fld = idle_call(variant, IF variant = "BabyBear" THEN indeterminate ELSE zero)
  /\ pk = no_pair

\* sqrt: if (*this == zero()) return *this; then the locals n_iter, n_power
sqrt_enter ==
  /\ pc = "sqrt"
  /\ IF y_sq = ext_zero
       THEN y' = y_sq /\ pc' = "after_sqrt" /\ sq' = sq
       ELSE /\ sq' = [no_sq EXCEPT !.n_iter = y_sq, !.n_power = y_sq, !.i = 1]
            /\ pc' = "sqrt_pow"
            /\ y' = y
  /\ UNCHANGED <<fld, pk, kind, record, recv, offset, x_start, x_trial, y_sq,
                 y_sq_pow_r, cip, cols>>

NextSqrt ==
  \/ sqrt_enter
  \/ sqrt_pow_step
  \/ sqrt_setup
  \/ sqrt_search
  \/ cipolla_step
  \/ sqrt_return

SpecSqrt == InitSqrt /\ [][NextSqrt]_vars

(***************************************************************************)
(* bb31_septic_curve_t: a point is the record of its coordinates x and y,  *)
(* and operator+ is called on pairs of points of the curve.  pk holds the  *)
(* operands p and q, the sum, the number of reciprocals the call has       *)
(* evaluated and the number n of additions made so far.                    *)
(***************************************************************************)
dummy_point ==
  [x |-> <<bb31_t(41124481), bb31_t(136856976), bb31_t(72496438), bb31_t(2651249),
           bb31_t(55731748), bb31_t(158816036), bb31_t(118044313)>>,
   y |-> <<bb31_t(48041908), bb31_t(550064556), bb31_t(415267377),
           bb31_t(1726976249), bb31_t(1253299140), bb31_t(209439863),
           bb31_t(1302309485)>>]

start_point ==
  [x |-> <<bb31_t(21185043), bb31_t(90322736), bb31_t(156256384), bb31_t(23627556),
           bb31_t(34171264), bb31_t(126183783), bb31_t(25645942)>>,
   y |-> <<bb31_t(885797405), bb31_t(1130275556), bb31_t(567836311),
           bb31_t(52700240), bb31_t(239639200), bb31_t(442612155),
           bb31_t(1839439733)>>]

\* bb31_septic_curve_t(): x = zero(), y = zero()
infinity == [x |-> ext_zero, y |-> ext_zero]

is_infinity_never(pt) == FALSE

is_infinity(pt) == pt.x = ext_zero /\ pt.y = ext_zero

\* the doubling branch: y2 = y + y; x2 = x * x;
\* slope = (x2 + x2 + x2 + two()) / y2
curve_double_slope(a) ==
  ext_div(ext_add_base(ext_add(ext_add(ext_mul(a.x, a.x), ext_mul(a.x, a.x)),
                               ext_mul(a.x, a.x)), two),
          ext_add(a.y, a.y))

\* result_x = slope * slope - x - x; result_y = slope * (x - result_x) - y
curve_double(a, slope) ==
  after(slope,
    [x |-> ext_sub(ext_sub(ext_mul(slope, slope), a.x), a.x),
     y |-> ext_sub(ext_mul(slope,
                           ext_sub(a.x, ext_sub(ext_sub(ext_mul(slope, slope), a.x),
                                                a.x))),
                   a.y)])

curve_cancel_keeps(a) == a

\* equal x and unequal y: x = zero(); y = zero()
curve_cancel(a) == [x |-> ext_zero, y |-> ext_zero]

curve_chord_x_own(a, b, slope) ==
  ext_sub(ext_sub(ext_mul(slope, slope), a.x), a.x)

\* new_x = slope * slope - x - b.x
curve_chord_x(a, b, slope) ==
  ext_sub(ext_sub(ext_mul(slope, slope), a.x), b.x)

\* y = slope * (x - new_x) - y; x = new_x
curve_chord_y(a, slope, new_x) ==
  after(new_x,
    [x |-> new_x, y |-> ext_sub(ext_mul(slope, ext_sub(a.x, new_x)), a.y)])

\* the branch of unequal x: slope = (b.y - y) / x_diff
curve_chord(a, b, slope) ==
  after(slope, curve_chord_y(a, slope, curve_chord_x(a, b, slope)))

\* operator+=(b) on a, and operator+(a, b) that returns a += b
curve_add(a, b) ==
  IF is_infinity(b) THEN a
  ELSE IF is_infinity(a) THEN b
  ELSE IF ext_sub(b.x, a.x) = ext_zero
    THEN IF a.y = b.y THEN curve_double(a, curve_double_slope(a))
         ELSE curve_cancel(a)
    ELSE curve_chord(a, b, ext_div(ext_sub(b.y, a.y), ext_sub(b.x, a.x)))

\* the divisor of the one operator/ that a call of operator+= evaluates, in
\* a tuple of none or one
curve_divisors(a, b) ==
  IF is_infinity(b) \/ is_infinity(a) THEN <<>>
  ELSE IF ext_sub(b.x, a.x) = ext_zero
    THEN IF a.y = b.y THEN <<ext_add(a.y, a.y)>> ELSE <<>>
    ELSE <<ext_sub(b.x, a.x)>>

NumAdditions == 2

\* the point with y negated
curve_neg(pt) == [x |-> pt.x, y |-> ext_sub(ext_zero, pt.y)]

CurveInputs ==
  {infinity, start_point, dummy_point, curve_neg(start_point),
   curve_neg(dummy_point)}

InitCurve ==
  /\ kind = "memory"
  /\ record = MemoryRecordAt(1)
  /\ encoder_idle
  /\ fld = no_call
  /\ \E a \in CurveInputs, b \in CurveInputs :
       pk = [status |-> "idle", p |-> a, q |-> b, sum |-> infinity,
             reciprocals |-> 0, n |-> 0]

\* sum = p + q; the assertion of reciprocal() ends the call at a divisor zero
curve_plus ==
  /\ pk.status = "idle"
  /\ pk.n < NumAdditions
  /\ IF \A k \in 1..Len(curve_divisors(pk.p, pk.q)) :
          ext_reciprocal_ok(curve_divisors(pk.p, pk.q)[k])
       THEN pk' = [pk EXCEPT !.status = "returned",
                             !.sum = curve_add(pk.p, pk.q),
                             !.reciprocals = Len(curve_divisors(pk.p, pk.q)),
                             !.n = pk.n + 1]
       ELSE pk' = [pk EXCEPT !.status = "aborted"]
  /\ UNCHANGED <<kind, record, recv, pc, offset, x_start, x_trial, y_sq,
                 y_sq_pow_r, y, sq, cip, cols, fld>>

\* the sum becomes the left operand of the next addition
curve_again ==
  /\ pk.status = "returned"
  /\ \E b \in CurveInputs \cup {pk.p, curve_neg(pk.sum)} :
       pk' = [pk EXCEPT !.status = "idle", !.p = pk.sum, !.q = b]
  /\ UNCHANGED <<kind, record, recv, pc, offset, x_start, x_trial, y_sq,
                 y_sq_pow_r, y, sq, cip, cols, fld>>

NextCurve ==
  \/ curve_plus
  \/ curve_again

SpecCurve == InitCurve /\ [][NextCurve]_vars

(***************************************************************************)
(* Properties of the encoder, checked under Spec.                          *)
(***************************************************************************)
\* C1: a record written by populate_memory or populate_syscall holds a y
\* on the requested side, is_receive(y) equal to the is_receive flag of the
\* call and is_send(y) to its negation, and y is not exceptional.
C1_DirectionCorrect ==
  \A d \in BOOLEAN :
    cols[d].written =>
      /\ is_receive(cols[d].y_coordinate) = d
      /\ is_send(cols[d].y_coordinate) = ~d
      /\ ~is_exception(cols[d].y_coordinate)

\* Both calls have returned and one of them has flipped the root.
C1_Witness ==
  /\ pc = "returned"
  /\ cols[TRUE].written
  /\ cols[FALSE].written
  /\ cols[TRUE].y_coordinate # cols[FALSE].y_coordinate

\* C2: the point of a written record lies on the curve, x.curve_formula()
\* equal to y * y, in both directions.
C2_OnCurve ==
  \A d \in BOOLEAN :
    cols[d].written =>
      curve_formula(cols[d].x_coordinate)
        = ext_mul(cols[d].y_coordinate, cols[d].y_coordinate)

\* A call for the send side has returned with a root of the send range.
C2_Witness ==
  /\ pc = "returned"
  /\ cols[FALSE].written
  /\ is_send(cols[FALSE].y_coordinate)
  /\ cols[FALSE].x_coordinate = x_trial

\* C4: a record encoded in both directions gets the same offset and the
\* same x coordinate, and y_send = zero() - y_receive.
C4_SendNegatesReceive ==
  (cols[TRUE].written /\ cols[FALSE].written) =>
    /\ IF kind = "memory"
         THEN cols[FALSE].offset = cols[TRUE].offset
         ELSE cols[FALSE].offset_bits = cols[TRUE].offset_bits
    /\ cols[FALSE].x_coordinate = cols[TRUE].x_coordinate
    /\ cols[FALSE].y_coordinate = ext_sub(ext_zero, cols[TRUE].y_coordinate)

\* Both directions of one record are written, at an offset above 0.
C4_Witness ==
  /\ cols[TRUE].written
  /\ cols[FALSE].written
  /\ offset > 0
  /\ x_start # packed_start

(***************************************************************************)
(* Properties of the packing blocks, checked under SpecPack.               *)
(***************************************************************************)
\* C5 as stated: for every memory record and every syscall event on which
\* packing succeeds, x_start of the one at any offset differs from x_start
\* of the other at every offset 0..255, and so do the two trial x values.
C5_NeverCollide ==
  /\ pc = "curve" =>
       \A t \in pk.trials : \A j \in 1..MAX_OFFSET :
         /\ x_start # t.trials[j].x_start
         /\ x_trial # t.trials[j].x_trial
  /\ (pc = "loop" /\ offset = 0) =>
       \A o \in pk.own : \A t \in pk.trials :
         o.record = record =>
           \A i, j \in 1..MAX_OFFSET :
             /\ o.trials[i].x_start # t.trials[j].x_start
             /\ o.trials[i].x_trial # t.trials[j].x_trial

\* C5, amended: for every memory record and every syscall event whose
\* shards are both below 1 << 24, x_start of the one at any offset differs
\* from x_start of the other at every offset 0..255, and the trial x value
\* of the one at any offset differs from the trial x value of the other at
\* every offset 0..255.  The first conjunct compares the trial a running
\* call holds, the second the packed start element of the call advanced by
\* each number of offset steps.
C5_DisjointBelowTag ==
  /\ (pc = "curve" /\ u32_lt(record.shard, <<256, 0>>)) =>
       \A t \in pk.trials :
         u32_lt(t.record.shard, <<256, 0>>) =>
           \A j \in 1..MAX_OFFSET :
             /\ x_start # t.trials[j].x_start
             /\ x_trial # t.trials[j].x_trial
  /\ (pc = "loop" /\ offset = 0 /\ u32_lt(record.shard, <<256, 0>>)) =>
       \A o \in pk.own : \A t \in pk.trials :
         (o.record = record /\ u32_lt(t.record.shard, <<256, 0>>)) =>
           \A i, j \in 1..MAX_OFFSET :
             /\ o.trials[i].x_start # t.trials[j].x_start
             /\ o.trials[i].x_trial # t.trials[j].x_trial

\* A call on a memory record is packed; its start element advanced by 255
\* offset steps is compared with offset 0 of a syscall event; both shards
\* are below 1 << 24 and all coefficients but the first are packed alike.
C5_Witness ==
  /\ kind = "memory"
  /\ pc = "loop"
  /\ offset = 0
  /\ u32_lt(record.shard, <<256, 0>>)
  /\ \E o \in pk.own :
       /\ o.record = record
       /\ o.trials[1].x_start = x_start
       /\ o.trials[MAX_OFFSET].x_trial
            = universal_hash(ext_add_base(x_start, to_monty(<<MAX_OFFSET - 1, 0>>)))
  /\ \E t \in pk.trials :
       /\ u32_lt(t.record.shard, <<256, 0>>)
       /\ \A k \in 2..7 : x_start[k] = t.trials[1].x_start[k]

(***************************************************************************)
(* Properties of the offset loop, checked under SpecLoop.                  *)
(***************************************************************************)
\* the rounds the search for `a` is seen to make
SearchBound == 4

\* C6: the offset k a written record holds is in 0..255, and the recorded
\* x is universal_hash of the packed element with k * (1 << 16) added to
\* coefficient 0.
C6_OffsetRederivable ==
  \A d \in BOOLEAN :
    cols[d].written =>
      LET k == IF kind = "memory"
                 THEN as_canonical_u32(cols[d].offset)
                 ELSE as_canonical_u32(cols[d].offset_bits[0])
                      + 2 * as_canonical_u32(cols[d].offset_bits[1])
                      + 4 * as_canonical_u32(cols[d].offset_bits[2])
                      + 8 * as_canonical_u32(cols[d].offset_bits[3])
                      + 16 * as_canonical_u32(cols[d].offset_bits[4])
                      + 32 * as_canonical_u32(cols[d].offset_bits[5])
                      + 64 * as_canonical_u32(cols[d].offset_bits[6])
                      + 128 * as_canonical_u32(cols[d].offset_bits[7])
      IN /\ k \in 0..255
         /\ cols[d].x_coordinate
              = universal_hash(ext_add_base(packed_start, to_monty(<<k, 0>>)))

\* A record is written at an offset above 0.
C6_Witness ==
  /\ pc = "returned"
  /\ cols[recv].written
  /\ offset > 0
  /\ cols[recv].x_coordinate # universal_hash(packed_start)

\* C7: behind the last offset stands the assertion: the call is at the
\* loop test or has ended in assert(false), it has not returned, and no
\* record is written; assert(false) is reached at no other offset.
C7_ExhaustionIsFatal ==
  /\ offset = MAX_OFFSET =>
       /\ pc \in {"loop", "assert_false"}
       /\ \A d \in BOOLEAN : ~cols[d].written
  /\ pc = "assert_false" => offset = MAX_OFFSET

\* No trial of a syscall event had a root that is not exceptional, and
\* the call has ended in assert(false) with no record written.
C7_Witness ==
  /\ pc = "assert_false"
  /\ kind = "syscall"
  /\ record = ExceptionalSyscallEvent
  /\ \A d \in BOOLEAN : ~cols[d].written

\* C8: every step of a call moves it forward: the offset grows, or the
\* call moves on within the iteration, or the loop over i of sqrt, the
\* search for `a` or the Cipolla power makes one round, the search at most
\* SearchBound of them; a call starts only where none runs.  The offset
\* stays within 256, assert(false) is reached with exactly 256 iterations
\* made, and a root that is not exceptional is written and returned at the
\* offset it was found at.
C8_Terminates ==
  [][LET phase(p) == CASE p = "idle" -> 0
                       [] p = "loop" -> 1
                       [] p = "curve" -> 2
                       [] p = "pow_r" -> 3
                       [] p = "test" -> 4
                       [] p = "sqrt_pow" -> 5
                       [] p = "sqrt_search" -> 6
                       [] p = "cipolla" -> 7
                       [] p = "after_sqrt" -> 8
                       [] p = "write" -> 9
                       [] OTHER -> 10
     IN /\ \/ offset' = offset + 1 /\ pc' = "loop"
           \/ offset' = offset /\ phase(pc') > phase(pc)
           \/ /\ offset' = offset
              /\ pc = "sqrt_pow"
              /\ pc' = "sqrt_pow"
              /\ sq'.i = sq.i + 1
              /\ sq'.i <= 30
           \/ /\ offset' = offset
              /\ pc = "sqrt_search"
              /\ pc' = "sqrt_search"
              /\ sq'.rounds = sq.rounds + 1
              /\ sq'.rounds <= SearchBound
           \/ /\ offset' = offset
              /\ pc = "cipolla"
              /\ pc' = "cipolla"
              /\ cip'.exponent < cip.exponent
              /\ cip'.exponent >= 0
           \/ /\ pc = "returned"
              /\ pc' = "loop"
              /\ offset' = 0
              /\ cols[recv].written
              /\ ~cols[recv'].written
        /\ offset' <= MAX_OFFSET
        /\ pc' = "assert_false" => offset' = MAX_OFFSET
        /\ pc' = "returned" => pc = "write" /\ offset' = offset /\ cols'[recv].written
        /\ (pc = "after_sqrt" /\ ~is_exception(y)) => pc' = "write" /\ offset' = offset
    ]_vars

\* The root of a trial was exceptional, and the call has ended in
\* assert(false) with 256 iterations made.
C8_Witness ==
  /\ pc = "assert_false"
  /\ offset = MAX_OFFSET
  /\ y_sq_pow_r # zero
  /\ is_exception(y)
  /\ x_start = packed_start

(***************************************************************************)
(* Properties of the base field and the extension, checked under           *)
(* SpecField and SpecExt.                                                  *)
(***************************************************************************)
\* C9: a call of from_canonical_u32, from_canonical_u16 or from_canonical_u8
\* with an argument of MOD or above ends in the assertion and returns no
\* element, in every class of the base field.
C9_FromCanonicalFailsFast ==
  (/\ fld.op \in {"from_canonical_u32", "from_canonical_u16", "from_canonical_u8"}
   /\ ~u32_lt(fld.arg, MOD32)) =>
    fld.status = "aborted"

\* C10: reciprocal() of the zero of the base field, and reciprocal() or
\* operator/ with the zero of the extension as the divisor, end in the
\* assertion and return no value.
C10_DivisionByZeroFails ==
  (\/ fld.op = "reciprocal" /\ fld.arg = <<0, 0>>
   \/ fld.op \in {"ext_reciprocal", "ext_div"} /\ fld.arg = ext_zero) =>
    fld.status = "aborted"

\* C11: for a nonzero element x of the base field, in every class,
\* x * x.reciprocal() is one(), and the chain of reciprocal() has raised x
\* to the exponent p - 2.
C11_ReciprocalIsInverse ==
  (fld.op = "reciprocal" /\ fld.status = "returned" /\ fld.arg # <<0, 0>>) =>
    /\ val_of(fld.val) = Pow(val_of(fld.arg), MOD - 2)
    /\ IF reciprocal_asserts(fld.variant)
         THEN Mul(val_of(fld.arg), val_of(fld.val)) = ONE
         ELSE cuda_mul(fld.arg, fld.val) = u32_of(ONE)

\* reciprocal() has returned for p - 1 in the CUDA build
C11_Witness ==
  /\ fld.op = "reciprocal"
  /\ fld.status = "returned"
  /\ fld.variant = "bb31_t CUDA"
  /\ fld.arg = u32_of(to_monty(<<30720, 0>>))
  /\ fld.val # <<0, 0>>

\* C12: for an element x of the base field, zero included, x.is_square()
\* is true if and only if some element r has r * r = x.
C12_IsSquareIffRoot ==
  fld.op = "is_square" =>
    (fld.val <=>
       \E r \in ElementInputs : Mul(val_of(r), val_of(r)) = val_of(fld.arg))

\* C13: for a nonzero element x of the extension, x * x.reciprocal() is
\* one().
C13_ExtReciprocalIsInverse ==
  (fld.op = "ext_reciprocal" /\ fld.status = "returned") =>
    /\ fld.arg # ext_zero
    /\ ext_mul(fld.arg, fld.val) = ext_one

\* C14: for an element x of the extension, the product pow_r_1(x) * x has
\* its coefficients 1..6 zero: the assertion of pow_r() does not fail, and
\* the value[0] that pow_r() returns is the whole product.
C14_PowRInBaseField ==
  fld.op = "pow_r" =>
    /\ fld.status = "returned"
    /\ \A i \in 1..6 : at(fld.val, i) = zero
    /\ fld.val = ext_from_base(pow_r(fld.arg))

\* C15: frobenius is a ring homomorphism of the extension: for elements a
\* and b, frobenius(a + b) = frobenius(a) + frobenius(b) and
\* frobenius(a * b) = frobenius(a) * frobenius(b).  Two elements are equal
\* when their coefficients are determinate and the same.
C15_FrobeniusHomomorphism ==
  fld.op = "frobenius_pair" =>
    /\ \A k \in 1..4 : \A i \in 0..6 : at(fld.val[k], i) # indeterminate
    /\ fld.val[3] = ext_add(fld.val[1], fld.val[2])
    /\ fld.val[4] = ext_mul(fld.val[1], fld.val[2])

\* C16: frobenius applied seven times in a row to an element of the
\* extension returns the element unchanged.
C16_FrobeniusOrderSeven ==
  (fld.op = "frobenius" /\ fld.val.n = 7) => fld.val.res = fld.arg

(***************************************************************************)
(* Properties of sqrt, checked under SpecSqrt.                             *)
(***************************************************************************)
\* C17: for a square x of the extension and pow_r = x.pow_r(), the value
\* r = x.sqrt(pow_r) has r * r = x; for x zero, sqrt returns zero and the
\* reciprocal of pow_r is not evaluated.
C17_SqrtSquaresBack ==
  /\ pc # "abort_reciprocal"
  /\ pc = "after_sqrt" => ext_mul(y, y) = y_sq
  /\ y_sq = ext_zero =>
       /\ pc \in {"sqrt", "after_sqrt"}
       /\ sq = no_sq
       /\ pc = "after_sqrt" => y = ext_zero

(***************************************************************************)
(* Properties of curve addition, checked under SpecCurve.                  *)
(***************************************************************************)
\* every operand is the point at infinity or satisfies y^2 = x^3 + 2x + 26z^5
valid_point(pt) == is_infinity(pt) \/ ext_mul(pt.y, pt.y) = curve_formula(pt.x)

\* C18: the point at infinity is a two-sided identity of the addition:
\* P + infinity = P and infinity + P = P for every point P, and neither
\* call evaluates a reciprocal.
C18_InfinityIsIdentity ==
  (pk.status = "returned" /\ (pk.q = infinity \/ pk.p = infinity)) =>
    /\ pk.q = infinity => pk.sum = pk.p
    /\ pk.p = infinity => pk.sum = pk.q
    /\ pk.reciprocals = 0

\* P + infinity has returned for a sum P of two points
C18_Witness ==
  /\ pk.status = "returned"
  /\ pk.n = 2
  /\ pk.q = infinity
  /\ pk.p \notin CurveInputs
  /\ pk.sum = pk.p

\* C19: for a point P = (x, y) of the curve, whatever y is,
\* P + (x, zero() - y) is the point at infinity.
C19_OppositeCancels ==
  (/\ pk.status \in {"returned", "aborted"}
   /\ valid_point(pk.p)
   /\ pk.q = curve_neg(pk.p)) =>
    /\ pk.status = "returned"
    /\ pk.sum = infinity

\* P + (-P) has returned for a sum P of two points
C19_Witness ==
  /\ pk.status = "returned"
  /\ pk.n = 2
  /\ pk.p \notin CurveInputs
  /\ pk.q = curve_neg(pk.p)
  /\ valid_point(pk.p)

\* C20: the addition is commutative: for points P and Q of the curve,
\* infinity, equal points and opposite points included, P + Q = Q + P in
\* both coordinates.
C20_AdditionCommutes ==
  (pk.status = "returned" /\ valid_point(pk.p) /\ valid_point(pk.q)) =>
    curve_add(pk.q, pk.p) = pk.sum

\* P + Q has returned by the chord branch, with P a sum of two points
C20_Witness ==
  /\ pk.status = "returned"
  /\ pk.n = 2
  /\ pk.p \notin CurveInputs
  /\ pk.q = start_point
  /\ pk.p.x # pk.q.x
  /\ pk.reciprocals = 1
  /\ valid_point(pk.sum)

(***************************************************************************)
(* Properties of words and of the representation of the base field,        *)
(* checked under SpecField.                                                *)
(***************************************************************************)
\* C21: a 32-bit value packed into the four coefficients of a word with
\* write_word_from_u32 and read back with word_to_u32 is the value itself,
\* for every uint32_t from 0 to 0xFFFFFFFF.
C21_WordRoundTrip ==
  fld.op = "word_to_u32" => fld.val = fld.arg

\* (a + b) mod p and (a * b) mod p on integers below p, the product by
\* doubling and adding over the bits of b
mod_add(a, b) == IF a >= MOD - b THEN a - (MOD - b) ELSE a + b

\* 16 * h modulo p for h < p: 2^27 * q is q * (2^31 - p) modulo p
mod_times_16(h) ==
  mod_add((16 * (h % 134217728)) % MOD,
          ((h \div 134217728) * ((2147483647 - MOD) + 1)) % MOD)

\* d * a modulo p for d < 16
mod_times_digit(d, a) ==
  LET a2 == mod_add(a, a)
      a4 == mod_add(a2, a2)
      a8 == mod_add(a4, a4)
  IN mod_add(mod_add(IF d % 2 = 1 THEN a ELSE 0,
                     IF (d \div 2) % 2 = 1 THEN a2 ELSE 0),
             mod_add(IF (d \div 4) % 2 = 1 THEN a4 ELSE 0,
                     IF d \div 8 = 1 THEN a8 ELSE 0))

\* a * b modulo p over the hexadecimal digits of b
RECURSIVE mod_mul(_, _)
mod_mul(a, b) ==
  IF b = 0 THEN 0
  ELSE mod_add(mod_times_16(mod_mul(a, b \div 16)), mod_times_digit(b % 16, a))

\* C22: the Montgomery representation is not observable: for a, b in [0, p)
\* from_canonical_u32(a).as_canonical_u32() is a, and as_canonical_u32 of
\* the sum, the difference and the product of from_canonical_u32(a) and
\* from_canonical_u32(b) is (a + b) mod p, (a - b) mod p and (a * b) mod p.
C22_MontgomeryUnobservable ==
  fld.op = "arithmetic" =>
    /\ fld.val[1] = val_of(fld.arg[1])
    /\ fld.val[2] = mod_add(val_of(fld.arg[1]), val_of(fld.arg[2]))
    /\ mod_add(fld.val[3], val_of(fld.arg[2])) = val_of(fld.arg[1])
    /\ fld.val[4] = mod_mul(val_of(fld.arg[1]), val_of(fld.arg[2]))

\* the four values have been taken for a = p - 1 and b = p - 2: their sum
\* wraps, their difference is 1 and their product is 2
C22_Witness ==
  /\ fld.op = "arithmetic"
  /\ fld.arg = <<(<<30720, 0>>), (<<30719, 65535>>)>>
  /\ fld.val = <<MOD - 1, MOD - 3, 1, 2>>

(***************************************************************************)
(* Properties of the offset loop, checked under SpecLoop and Spec.         *)
(***************************************************************************)
\* C23: an exceptional y at offset k < 255 is rejected and the trial at
\* offset k + 1 is made on the start element advanced by k + 1 steps of
\* 2^16, as after a non-square: at the start of the iteration with counter
\* k, x_start is the packed element plus k * 2^16 in coefficient 0.
C23_StartFollowsOffset ==
  (pc = "loop" /\ offset < MAX_OFFSET) =>
    x_start = ext_add_base(packed_start, to_monty(<<offset, 0>>))

\* C24: in populate_memory and populate_syscall sqrt runs on y_sq only
\* behind the residuosity test passed on that y_sq: its pow_r argument is
\* the norm of y_sq, the norm is not zero and its power (p - 1) / 2 is
\* one().
C24_SqrtBehindTest ==
  pc \in {"sqrt_pow", "sqrt_search", "cipolla"} =>
    /\ y_sq = curve_formula(x_trial)
    /\ y_sq_pow_r = at(ext_mul(pow_r_1(y_sq), y_sq), 0)
    /\ y_sq_pow_r # zero
    /\ Pow(y_sq_pow_r, HALF_ORDER) = ONE

\* sqrt runs at an offset reached over trials that failed the test
C24_Witness ==
  /\ pc = "sqrt_search"
  /\ offset > 0
  /\ y_sq # ext_zero

----------------------------------------------------------------------------
\* Properties of the extension field's operations, checked under SpecExt

\* the canonical coefficients of an extension element
ext_canonical(a) ==
  <<as_canonical_u32(a[1]), as_canonical_u32(a[2]), as_canonical_u32(a[3]),
    as_canonical_u32(a[4]), as_canonical_u32(a[5]), as_canonical_u32(a[6]),
    as_canonical_u32(a[7])>>

\* c * b + x * rest modulo x^7 = 2x + 5, on canonical coefficients
poly_step(c, b, rest) ==
  <<mod_add(mod_mul(b[1], c), mod_mul(rest[7], 5)),
    mod_add(mod_mul(b[2], c), mod_add(rest[1], mod_mul(rest[7], 2))),
    mod_add(mod_mul(b[3], c), rest[2]),
    mod_add(mod_mul(b[4], c), rest[3]),
    mod_add(mod_mul(b[5], c), rest[4]),
    mod_add(mod_mul(b[6], c), rest[5]),
    mod_add(mod_mul(b[7], c), rest[6])>>

\* a(x) * b(x) modulo x^7 = 2x + 5 by Horner's rule from coefficient i of a
RECURSIVE poly_product(_, _, _)
poly_product(a, b, i) ==
  IF i > 7 THEN <<0, 0, 0, 0, 0, 0, 0>>
  ELSE poly_step(a[i], b, poly_product(a, b, i + 1))

\* C25: a * b of the extension field has the coefficients of the
\* polynomial product a(x) * b(x) reduced modulo x^7 = 2x + 5.
C25_MulIsPolynomialProduct ==
  fld.op = "ext_mul" =>
    ext_canonical(fld.val)
      = poly_product(ext_canonical(fld.arg[1]), ext_canonical(fld.arg[2]), 1)

\* C26: double_frobenius() of an element is frobenius() of its frobenius():
\* the coefficients of both are determinate and the same.
C26_DoubleFrobeniusIsTwice ==
  (fld.op = "frobenius" /\ fld.val.n = 2) =>
    /\ \A i \in 0..6 : at(fld.val.res, i) # indeterminate
    /\ \A i \in 0..6 : at(fld.val.double, i) # indeterminate
    /\ fld.val.res = fld.val.double

\* C27: pow_r_1(x) is frobenius(x) * double_frobenius(frobenius(x))
\* * double_frobenius(double_frobenius(frobenius(x))).
C27_PowR1ThreeConjugates ==
  fld.op = "pow_r_1" =>
    fld.val = ext_mul(ext_mul(frobenius(fld.arg),
                              double_frobenius(frobenius(fld.arg))),
                      double_frobenius(double_frobenius(frobenius(fld.arg))))

----------------------------------------------------------------------------
\* Properties of the base field's representation, checked under SpecField

\* C28: the elements returned by from_canonical_u32, from_canonical_u16,
\* from_canonical_u8, from_bool, +, -, *, <<, square, exp_power_of_2 and
\* reciprocal on stored values in [0, p) have their stored val in [0, p),
\* and two of them have the same stored val exactly when they have the same
\* as_canonical_u32().
C28_StoredValBelowModulus ==
  /\ (/\ fld.op \in {"from_canonical_u32", "from_canonical_u16",
                      "from_canonical_u8"}
      /\ fld.status = "returned") =>
       /\ val_of(fld.val) >= 0
       /\ val_of(fld.val) < MOD
  /\ fld.op = "operators" =>
       /\ \A i \in DOMAIN fld.val : fld.val[i] >= 0 /\ fld.val[i] < MOD
       /\ \A i \in DOMAIN fld.val : \A j \in DOMAIN fld.val :
            (fld.val[i] = fld.val[j])
              <=> (as_canonical_u32(fld.val[i]) = as_canonical_u32(fld.val[j]))

\* the operators on p - 1 and 1 with a shift by 31: the sum wraps to zero
\* and reciprocal() returns
C28_Witness ==
  /\ fld.op = "operators"
  /\ fld.arg = <<MOD - 1, 1, 31>>
  /\ fld.val[2] = 0
  /\ fld.val[3] = MOD - 2
  /\ Len(fld.val) = 8

----------------------------------------------------------------------------
\* Properties of the written columns, checked under SpecLoop

\* C29: when an encoding has returned, coefficient 6 of y is at least 1 for
\* a receive and at least (p + 1) / 2 for a send, range_check_value is at
\* most (p - 3) / 2, the bits 26..29 written by populate_syscall are not all
\* one, and no encoding has stopped in reciprocal() of a zero top_4_bits.
C29_RangeCheckValueSmall ==
  /\ pc # "abort_reciprocal"
  /\ pc = "returned" =>
       /\ as_canonical_u32(at(y, 6)) >= (IF recv THEN 1 ELSE (MOD + 1) \div 2)
       /\ range_check_value(y, recv)[1] <= ((MOD - 3) \div 2) \div W
       /\ cols[recv].written
       /\ kind = "syscall" =>
            /\ \E idx \in 26..29 : cols[recv].y6_bit_decomp[idx] = zero
            /\ \A idx \in 0..29 :
                 cols[recv].y6_bit_decomp[idx]
                   = from_canonical_u32(
                       <<0, u32_bit(range_check_value(y, recv), idx)>>)

\* a send written by populate_syscall with range_check_value (p - 3) / 2,
\* whose bits 27..29 are one
C29_Witness ==
  /\ pc = "returned"
  /\ kind = "syscall"
  /\ ~recv
  /\ range_check_value(y, recv) = u32_of((MOD - 3) \div 2)
  /\ cols[recv].y6_bit_decomp[27] = ONE
  /\ cols[recv].y6_bit_decomp[28] = ONE
  /\ cols[recv].y6_bit_decomp[29] = ONE
  /\ cols[recv].y6_bit_decomp[26] = zero

\* C30: exactly one of is_receive(), is_send() and is_exception() holds of
\* an extension element, and zero() - y is a send for a receive y, a receive
\* for a send y and exceptional for an exceptional y.
C30_OneClassAndNegationSwaps ==
  fld.op = "classify" =>
    /\ fld.val.of \in {<<TRUE, FALSE, FALSE>>, <<FALSE, TRUE, FALSE>>,
                       <<FALSE, FALSE, TRUE>>}
    /\ fld.val.of_negated
         = <<fld.val.of[2], fld.val.of[1], fld.val.of[3]>>

\* the element with coefficient 6 at the upper end (p - 1) / 2 of the
\* receive range, whose negation has the lower end of the send range
C30_Witness ==
  /\ fld.op = "classify"
  /\ fld.arg = root_sample((MOD - 1) \div 2)
  /\ fld.val.of = <<TRUE, FALSE, FALSE>>
  /\ fld.val.of_negated = <<FALSE, TRUE, FALSE>>
=============================================================================
